---- MODULE Spec2Model ----
(***************************************************************************)
(* Jobly backend: the SQL clause builders of helpers/sql.js, the models    *)
(* that call them, and the invocations of the builders by in-flight        *)
(* requests.                                                               *)
(*                                                                         *)
(* JavaScript strings are sequences of one-character strings, so that a    *)
(* fragment can be scanned for its placeholders character by character.    *)
(* JavaScript values are tagged records.  An object is the sequence of its *)
(* own <<key, value>> entries in insertion order, which is the order       *)
(* Object.keys and Object.values iterate in for non-index keys.            *)
(***************************************************************************)
EXTENDS Integers, Sequences, FiniteSets, TLC

\* ------------------------------------------------------------------ bounds

\* Most fields of an update mapping (data of PATCH /users/:username, /jobs/:id).
MaxFields == 2

\* Largest employee count / salary a filter carries.
MaxCount == 2

\* ------------------------------------------------------- JavaScript values

Undefined == [t |-> "undefined"]

Null == [t |-> "null"]

Bool(b) == [t |-> "boolean", b |-> b]

Num(n) == [t |-> "number", n |-> n]

Str(s) == [t |-> "string", s |-> s]

\* ToBoolean: the falsy values are undefined, null, false, 0 and ''.
Truthy(v) ==
  CASE v.t = "undefined" -> FALSE
    [] v.t = "null" -> FALSE
    [] v.t = "boolean" -> v.b
    [] v.t = "number" -> v.n # 0
    [] v.t = "string" -> v.s # <<>>
    [] v.t \in {"array", "object"} -> TRUE

\* a || b
JsOr(a, b) == IF Truthy(a) THEN a ELSE b

DigitChars == <<"0", "1", "2", "3", "4", "5", "6", "7", "8", "9">>

RECURSIVE Digits(_)
\* Number -> decimal text, for a natural number.
Digits(n) ==
  IF n < 10 THEN <<DigitChars[n + 1]>>
  ELSE Digits(n \div 10) \o <<DigitChars[(n % 10) + 1]>>

IsDigit(c) == \E d \in 1..10 : DigitChars[d] = c

DigitValue(c) == (CHOOSE d \in 1..10 : DigitChars[d] = c) - 1

RECURSIVE NumberAt(_, _, _)
\* The number written by the digits of s from position i on.
NumberAt(s, i, acc) ==
  IF i <= Len(s) /\ IsDigit(s[i])
  THEN NumberAt(s, i + 1, 10 * acc + DigitValue(s[i]))
  ELSE acc

\* ToString, as a template literal applies it to ${...}.
JsToString(v) ==
  CASE v.t = "undefined" -> <<"u", "n", "d", "e", "f", "i", "n", "e", "d">>
    [] v.t = "null" -> <<"n", "u", "l", "l">>
    [] v.t = "boolean" ->
         IF v.b THEN <<"t", "r", "u", "e">> ELSE <<"f", "a", "l", "s", "e">>
    [] v.t = "number" ->
         IF v.n < 0 THEN <<"-">> \o Digits(0 - v.n) ELSE Digits(v.n)
    [] v.t = "string" -> v.s

\* ToNumber of the operands a comparison meets here; -1 stands for NaN,
\* which no ordering comparison is true of.
IsNaN(v) == v.t = "undefined"

JsToNumber(v) ==
  CASE v.t = "number" -> v.n
    [] v.t = "boolean" -> IF v.b THEN 1 ELSE 0
    [] v.t = "null" -> 0
    [] OTHER -> 0

\* a > b on numbers, booleans, null and undefined.
JsGreater(a, b) ==
  /\ ~IsNaN(a)
  /\ ~IsNaN(b)
  /\ JsToNumber(a) > JsToNumber(b)

\* ----------------------------------------------------------------- objects

HasOwn(obj, k) == \E i \in 1..Len(obj) : obj[i][1] = k

\* obj.k : the own property, or undefined.
Get(obj, k) ==
  IF HasOwn(obj, k)
  THEN obj[CHOOSE i \in 1..Len(obj) : obj[i][1] = k][2]
  ELSE Undefined

ObjectKeys(obj) == [i \in 1..Len(obj) |-> obj[i][1]]

ObjectValues(obj) == [i \in 1..Len(obj) |-> obj[i][2]]

\* delete obj.k
Delete(obj, k) == SelectSeq(obj, LAMBDA e : e[1] # k)

RECURSIVE Join(_, _)
\* Array.prototype.join
Join(parts, sep) ==
  IF Len(parts) = 0 THEN <<>>
  ELSE IF Len(parts) = 1 THEN parts[1]
  ELSE parts[1] \o sep \o Join(Tail(parts), sep)

\* ------------------------------------------------------------- exceptions

Throw(cls, message) == [ok |-> FALSE, error |-> cls, message |-> message]

Return(value) == [ok |-> TRUE, value |-> value]

\* ------------------------------------------------------------ string data

K_firstName == <<"f", "i", "r", "s", "t", "N", "a", "m", "e">>

K_lastName == <<"l", "a", "s", "t", "N", "a", "m", "e">>

K_isAdmin == <<"i", "s", "A", "d", "m", "i", "n">>

K_email == <<"e", "m", "a", "i", "l">>

K_password == <<"p", "a", "s", "s", "w", "o", "r", "d">>

K_title == <<"t", "i", "t", "l", "e">>

K_salary == <<"s", "a", "l", "a", "r", "y">>

K_equity == <<"e", "q", "u", "i", "t", "y">>

K_id == <<"i", "d">>

K_companyHandle ==
  <<"c", "o", "m", "p", "a", "n", "y", "H", "a", "n", "d", "l", "e">>

K_nameLike == <<"n", "a", "m", "e", "L", "i", "k", "e">>

K_minEmployees == <<"m", "i", "n", "E", "m", "p", "l", "o", "y", "e", "e", "s">>

K_maxEmployees == <<"m", "a", "x", "E", "m", "p", "l", "o", "y", "e", "e", "s">>

K_handle == <<"h", "a", "n", "d", "l", "e">>

K_minSalary == <<"m", "i", "n", "S", "a", "l", "a", "r", "y">>

K_hasEquity == <<"h", "a", "s", "E", "q", "u", "i", "t", "y">>

\* The text pieces of the template literals of helpers/sql.js.
T_quote == <<"\"">>

T_quoteEqDollar == <<"\"", "=", "$">>

T_commaSpace == <<",", " ">>

T_nameIlike == <<"n", "a", "m", "e", " ", "I", "L", "I", "K", "E", " ", "$">>

T_numEmployeesGe ==
  <<"n", "u", "m", "_", "e", "m", "p", "l", "o", "y", "e", "e", "s", " ",
    ">", "=", " ", "$">>

T_numEmployeesLe ==
  <<"n", "u", "m", "_", "e", "m", "p", "l", "o", "y", "e", "e", "s", " ",
    "<", "=", " ", "$">>

T_where == <<" ", "W", "H", "E", "R", "E", " ">>

T_and == <<" ", "A", "N", "D", " ">>

T_percent == <<"%">>

\* ------------------------------------------------------- helpers/sql.js

\* The callback of keys.map: `"${jsToSql[colName] || colName}"=$${idx + 1}`,
\* idx the 0-based index of colName in keys.
SfpColUntranslated(colName, idx, jsToSql) ==
  T_quote \o colName \o T_quoteEqDollar \o Digits(idx + 1)

SfpColZeroBased(colName, idx, jsToSql) ==
  T_quote \o JsToString(JsOr(Get(jsToSql, colName), Str(colName)))
    \o T_quoteEqDollar \o Digits(idx)

SfpCol(colName, idx, jsToSql) ==
  T_quote \o JsToString(JsOr(Get(jsToSql, colName), Str(colName)))
    \o T_quoteEqDollar \o Digits(idx + 1)

\* keys.length === 0
SfpNeverEmpty(keys) == FALSE

SfpNoData(keys) == Len(keys) = 0

\* keys.map(...)
SfpCols(keys, jsToSql) ==
  [i \in 1..Len(keys) |-> SfpCol(keys[i], i - 1, jsToSql)]

\* { setCols: cols.join(', '), values: Object.values(dataToUpdate) }
SfpReturn(cols, dataToUpdate) ==
  [setCols |-> Join(cols, T_commaSpace), values |-> ObjectValues(dataToUpdate)]

SfpThrow == Throw("BadRequestError", "No data")

sqlForPartialUpdate(dataToUpdate, jsToSql) ==
  LET keys == ObjectKeys(dataToUpdate)
  IN IF SfpNoData(keys)
     THEN SfpThrow
     ELSE Return(SfpReturn(SfpCols(keys, jsToSql), dataToUpdate))

\* const clauses = []; const values = []; let idx = 1;
SwcLocals == [clauses |-> <<>>, values |-> <<>>, idx |-> 1]

\* filters.minEmployees && filters.maxEmployees &&
\* filters.minEmployees > filters.maxEmployees
SwcRangeError(filters) ==
  /\ Truthy(Get(filters, K_minEmployees))
  /\ Truthy(Get(filters, K_maxEmployees))
  /\ JsGreater(Get(filters, K_minEmployees), Get(filters, K_maxEmployees))

\* One `if (filters.key) { clauses.push(`text$${idx++}`); values.push(v); }`
PushNoIncrement(l, text, v) ==
  [clauses |-> Append(l.clauses, text \o Digits(l.idx)),
   values |-> Append(l.values, v),
   idx |-> l.idx]

Push(l, text, v) ==
  [clauses |-> Append(l.clauses, text \o Digits(l.idx)),
   values |-> Append(l.values, v),
   idx |-> l.idx + 1]

SwcNameLikeOrHandle(filters, l) ==
  IF Truthy(JsOr(Get(filters, K_nameLike), Get(filters, K_handle)))
  THEN Push(l, T_nameIlike,
            Str(T_percent
                  \o JsToString(JsOr(Get(filters, K_nameLike),
                                     Get(filters, K_handle)))
                  \o T_percent))
  ELSE l

SwcNameLikeInterpolated(filters, l) ==
  IF Truthy(Get(filters, K_nameLike))
  THEN [clauses |->
          Append(l.clauses,
                 <<"n", "a", "m", "e", " ", "I", "L", "I", "K", "E", " ", "'", "%">>
                   \o JsToString(Get(filters, K_nameLike)) \o <<"%", "'">>),
        values |-> l.values,
        idx |-> l.idx]
  ELSE l

SwcNameLike(filters, l) ==
  IF Truthy(Get(filters, K_nameLike))
  THEN Push(l, T_nameIlike,
            Str(T_percent \o JsToString(Get(filters, K_nameLike)) \o T_percent))
  ELSE l

SwcMinEmployeesDefined(filters, l) ==
  IF Get(filters, K_minEmployees) # Undefined
  THEN Push(l, T_numEmployeesGe, Get(filters, K_minEmployees))
  ELSE l

SwcMinEmployees(filters, l) ==
  IF Truthy(Get(filters, K_minEmployees))
  THEN Push(l, T_numEmployeesGe, Get(filters, K_minEmployees))
  ELSE l

SwcMaxEmployees(filters, l) ==
  IF Truthy(Get(filters, K_maxEmployees))
  THEN Push(l, T_numEmployeesLe, Get(filters, K_maxEmployees))
  ELSE l

\* clauses.length > 0 ? ' WHERE ' + clauses.join(' AND ') : ''
WhereClause(clauses) ==
  IF Len(clauses) > 0 THEN T_where \o Join(clauses, T_and) ELSE <<>>

SwcReturn(l) == [whereClause |-> WhereClause(l.clauses), values |-> l.values]

SwcThrow ==
  Throw("BadRequestError",
        "Minimum number of employees can not be greater than maximum.")

sqlWhereClauseForGetCompanies(filters) ==
  IF SwcRangeError(filters)
  THEN SwcThrow
  ELSE Return(SwcReturn(
         SwcMaxEmployees(filters,
           SwcMinEmployees(filters,
             SwcNameLike(filters, SwcLocals)))))

\* sqlWhereClauseForGetJobs: the jobs filter builder that helpers/sql.test.js
\* imports from helpers/sql.js.  Same conventions as the companies builder;
\* hasEquity emits `equity <> $n` bound to 0 only when it is true.
T_titleIlike == <<"t", "i", "t", "l", "e", " ", "I", "L", "I", "K", "E", " ", "$">>

T_salaryGe == <<"s", "a", "l", "a", "r", "y", " ", ">", "=", " ", "$">>

T_equityNe == <<"e", "q", "u", "i", "t", "y", " ", "<", ">", " ", "$">>

SwjTitle(filters, l) ==
  IF Truthy(Get(filters, K_title))
  THEN Push(l, T_titleIlike,
            Str(T_percent \o JsToString(Get(filters, K_title)) \o T_percent))
  ELSE l

SwjMinSalary(filters, l) ==
  IF Truthy(Get(filters, K_minSalary))
  THEN Push(l, T_salaryGe, Get(filters, K_minSalary))
  ELSE l

SwjHasEquityFalsePushes(filters, l) ==
  IF HasOwn(filters, K_hasEquity) /\ Get(filters, K_hasEquity).t = "boolean"
  THEN Push(l, T_equityNe, Num(0))
  ELSE l

SwjHasEquity(filters, l) ==
  IF Get(filters, K_hasEquity) = Bool(TRUE)
  THEN Push(l, T_equityNe, Num(0))
  ELSE l

sqlWhereClauseForGetJobs(filters) ==
  Return(SwcReturn(
    SwjHasEquity(filters,
      SwjMinSalary(filters,
        SwjTitle(filters, SwcLocals)))))

\* The translation tables the models pass: {} (Job.update) and the users
\* table (User.update, and the tests of sqlForPartialUpdate).
JobJsToSql == <<>>

UserJsToSql ==
  << <<K_firstName, Str(<<"f", "i", "r", "s", "t", "_", "n", "a", "m", "e">>)>>,
     <<K_lastName, Str(<<"l", "a", "s", "t", "_", "n", "a", "m", "e">>)>>,
     <<K_isAdmin, Str(<<"i", "s", "_", "a", "d", "m", "i", "n">>)>> >>

\* -------------------------------------------------------------- the store

\* What db.query does with the UPDATE statement the models build:
\*   UPDATE <table> SET ${setCols} WHERE <key> = ${keyVarIdx} RETURNING ...
\* run with the parameters [...values, key].

IndexFrom(s, c, i) ==
  IF \E j \in i..Len(s) : s[j] = c
  THEN CHOOSE j \in i..Len(s) : s[j] = c /\ \A h \in i..(j - 1) : s[h] # c
  ELSE 0

RECURSIVE DigitsEnd(_, _)
\* The position after the digits that start at i.
DigitsEnd(s, i) ==
  IF i <= Len(s) /\ IsDigit(s[i]) THEN DigitsEnd(s, i + 1) ELSE i

SyntaxError == [ok |-> FALSE, sets |-> <<>>]

\* One assignment "col"=$n whose opening quote is at i and closing quote at
\* close.
IsAssignment(s, i, close) ==
  /\ i <= Len(s)
  /\ s[i] = "\""
  /\ close > i + 1
  /\ close + 3 <= Len(s)
  /\ s[close + 1] = "="
  /\ s[close + 2] = "$"
  /\ IsDigit(s[close + 3])

Assignment(s, i, close) ==
  [column |-> SubSeq(s, i + 1, close - 1), param |-> NumberAt(s, close + 3, 0)]

Cons(first, rest) ==
  IF rest.ok THEN [ok |-> TRUE, sets |-> <<first>> \o rest.sets]
  ELSE SyntaxError

RECURSIVE ParseSetList(_, _)
RECURSIVE ParseAssignment(_, _, _)
RECURSIVE ParseRest(_, _, _)
\* The assignments "col"=$n, ... of a SET list read from position i on;
\* not ok when the text is no SET list.
ParseSetList(s, i) == ParseAssignment(s, i, IndexFrom(s, "\"", i + 1))

ParseAssignment(s, i, close) ==
  IF IsAssignment(s, i, close)
  THEN ParseRest(s, Assignment(s, i, close), DigitsEnd(s, close + 3))
  ELSE SyntaxError

ParseRest(s, first, after) ==
  IF after > Len(s) THEN [ok |-> TRUE, sets |-> <<first>>]
  ELSE IF after + 1 <= Len(s) /\ s[after] = "," /\ s[after + 1] = " "
  THEN Cons(first, ParseSetList(s, after + 2))
  ELSE SyntaxError

\* The value of a key column that a parameter is compared with.
KeyValue(param) == IF param.t = "number" THEN param.n ELSE param.s

Assigned(sets, c) == \E a \in 1..Len(sets) : sets[a].column = c

\* The parameter of the last assignment to column c, the one that counts.
ParamFor(sets, c) ==
  sets[CHOOSE a \in 1..Len(sets) :
         /\ sets[a].column = c
         /\ \A b \in (a + 1)..Len(sets) : sets[b].column # c].param

\* The row of key `key` after the assignments.
UpdatedRow(row, sets, params) ==
  [c \in DOMAIN row |->
     IF Assigned(sets, c) THEN params[ParamFor(sets, c)] ELSE row[c]]

\* The rows with the row of `key` replaced by newRow under newKey.
DbReplace(rows, key, newKey, newRow) ==
  IF newKey # key /\ newKey \in DOMAIN rows
  THEN Throw("DatabaseError", "unique violation")
  ELSE Return([rows |-> [k \in (DOMAIN rows \ {key}) \cup {newKey} |->
                           IF k = newKey THEN newRow ELSE rows[k]],
               updated |-> <<newKey>>])

DbUpdateRow(rows, keyColumn, sets, key, params) ==
  IF key \notin DOMAIN rows
  THEN Return([rows |-> rows, updated |-> <<>>])
  ELSE DbReplace(rows, key,
                 IF Assigned(sets, keyColumn)
                 THEN KeyValue(params[ParamFor(sets, keyColumn)])
                 ELSE key,
                 UpdatedRow(rows[key], sets, params))

DbUpdateParsed(rows, columns, keyColumn, parsed, keyParam, params) ==
  IF ~parsed.ok
  THEN Throw("DatabaseError", "syntax error")
  ELSE IF \E a \in 1..Len(parsed.sets) :
            \/ parsed.sets[a].param \notin 1..Len(params)
            \/ parsed.sets[a].column \notin columns
  THEN Throw("DatabaseError", "undefined column or parameter")
  ELSE IF keyParam \notin 1..Len(params)
  THEN Throw("DatabaseError", "undefined parameter")
  ELSE DbUpdateRow(rows, keyColumn, parsed.sets,
                   KeyValue(params[keyParam]), params)

\* UPDATE on `rows` (key -> row, a row being column -> value): the rows
\* after it and the updated row's key, or the error the database raises.
DbUpdate(rows, columns, keyColumn, setCols, keyVarIdx, params) ==
  DbUpdateParsed(rows, columns, keyColumn, ParseSetList(setCols, 1),
                 NumberAt(keyVarIdx, 2, 0), params)

C_title == K_title

C_salary == K_salary

C_equity == K_equity

C_company_handle ==
  <<"c", "o", "m", "p", "a", "n", "y", "_", "h", "a", "n", "d", "l", "e">>

C_id == K_id

C_username == <<"u", "s", "e", "r", "n", "a", "m", "e">>

C_password == K_password

C_first_name == <<"f", "i", "r", "s", "t", "_", "n", "a", "m", "e">>

C_last_name == <<"l", "a", "s", "t", "_", "n", "a", "m", "e">>

C_email == K_email

C_is_admin == <<"i", "s", "_", "a", "d", "m", "i", "n">>

\* node-postgres hands a NUMERIC column back as its decimal text.
PgNumericText(v) == IF v.t = "number" THEN Str(Digits(v.n)) ELSE v

\* Number(text) of a decimal text.
JsNumber(v) == IF v.t = "string" THEN Num(NumberAt(v.s, 1, 0)) ELSE v

\* `if (job.equity !== null) job.equity = Number(job.equity)`
ConvertEquity(equity) == IF equity # Null THEN JsNumber(equity) ELSE equity

\* RETURNING id, title, salary, equity, company_handle AS "companyHandle"
JobReturning(id, row) ==
  << <<K_id, Num(id)>>,
     <<K_title, row[C_title]>>,
     <<K_salary, row[C_salary]>>,
     <<K_equity, PgNumericText(row[C_equity])>>,
     <<K_companyHandle, row[C_company_handle]>> >>

SetKey(obj, k, v) ==
  [i \in 1..Len(obj) |-> IF obj[i][1] = k THEN <<k, v>> ELSE obj[i]]

JobColumns == {C_title, C_salary, C_equity, C_company_handle}

\* `if (job.equity !== null) job.equity = Number(job.equity); return job`
JobConverted(job) == SetKey(job, K_equity, ConvertEquity(Get(job, K_equity)))

\* After db.query: `const job = result.rows[0]; if (!job) throw ...`
JobUpdateResult(jobs, result) ==
  IF ~result.ok
  THEN [ret |-> result, rows |-> jobs, queries |-> 1]
  ELSE IF result.value.updated = <<>>
  THEN [ret |-> Throw("NotFoundError", "No job"), rows |-> jobs, queries |-> 1]
  ELSE [ret |-> Return(JobConverted(
                  JobReturning(result.value.updated[1],
                               result.value.rows[result.value.updated[1]]))),
        rows |-> result.value.rows,
        queries |-> 1]

\* An index one past the parameter that holds the key.
VarIdxPastKey(values) == <<"$">> \o Digits(Len(values) + 2)

\* `'$' + (values.length + 1)`
VarIdx(values) == <<"$">> \o Digits(Len(values) + 1)

\* querySql and the parameters `[...values, id]` given to db.query.
UpdateQuery(built, key) ==
  [setCols |-> built.value.setCols,
   keyVarIdx |-> VarIdx(built.value.values),
   params |-> built.value.values \o <<key>>]

\* After sqlForPartialUpdate: idVarIdx, querySql and db.query.
JobUpdateBuilt(jobs, id, built) ==
  IF ~built.ok
  THEN [ret |-> built, rows |-> jobs, queries |-> 0]
  ELSE JobUpdateResult(jobs,
         DbUpdate(jobs, JobColumns \cup {C_id}, C_id,
                  UpdateQuery(built, id).setCols,
                  UpdateQuery(built, id).keyVarIdx,
                  UpdateQuery(built, id).params))

NotNull(entry) == entry[2] # Null

\* Job.update that takes a null for a field that is not given.
Job_updateSkipsNull(jobs, id, data) ==
  JobUpdateBuilt(jobs, id,
    sqlForPartialUpdate(
      SelectSeq(Delete(Delete(data, K_id), K_companyHandle), NotNull),
      JobJsToSql))

\* What Job.update hands sqlForPartialUpdate and gets from it.
JobBuilt(data) ==
  sqlForPartialUpdate(Delete(Delete(data, K_id), K_companyHandle), JobJsToSql)

\* Job.update(id, data): what it returns or throws, the jobs table after it,
\* and the statements it has had the database execute.
Job_update(jobs, id, data) == JobUpdateBuilt(jobs, id, JobBuilt(data))

\* bcrypt.hash(password, BCRYPT_WORK_FACTOR): a text that starts $2b$ and is
\* not the password.
BcryptHash(password) == <<"$", "2", "b", "$">> \o password

\* RETURNING username, first_name AS "firstName", last_name AS "lastName",
\* email, is_admin AS "isAdmin"
UserReturning(username, row) ==
  << <<C_username, Str(username)>>,
     <<K_firstName, row[C_first_name]>>,
     <<K_lastName, row[C_last_name]>>,
     <<K_email, row[C_email]>>,
     <<K_isAdmin, row[C_is_admin]>> >>

UserColumns == {C_password, C_first_name, C_last_name, C_email, C_is_admin}

\* `if (data.password) data.password = await bcrypt.hash(data.password, ...)`
UserHashed(data) ==
  IF Truthy(Get(data, K_password))
  THEN SetKey(data, K_password,
              Str(BcryptHash(JsToString(Get(data, K_password)))))
  ELSE data

\* After db.query: `const user = result.rows[0]; if (!user) throw ...`
UserUpdateResult(users, result) ==
  IF ~result.ok
  THEN [ret |-> result, rows |-> users, queries |-> 1]
  ELSE IF result.value.updated = <<>>
  THEN [ret |-> Throw("NotFoundError", "No user"),
        rows |-> users, queries |-> 1]
  ELSE [ret |-> Return(Delete(
                  UserReturning(result.value.updated[1],
                                result.value.rows[result.value.updated[1]]),
                  K_password)),
        rows |-> result.value.rows,
        queries |-> 1]

\* After sqlForPartialUpdate: usernameVarIdx, querySql and db.query.
UserUpdateBuilt(users, username, built) ==
  IF ~built.ok
  THEN [ret |-> built, rows |-> users, queries |-> 0]
  ELSE UserUpdateResult(users,
         DbUpdate(users, UserColumns \cup {C_username}, C_username,
                  UpdateQuery(built, username).setCols,
                  UpdateQuery(built, username).keyVarIdx,
                  UpdateQuery(built, username).params))

\* User.update(username, data)
UserBuilt(data) == sqlForPartialUpdate(UserHashed(data), UserJsToSql)

User_update(users, username, data) ==
  UserUpdateBuilt(users, username, UserBuilt(data))

\* ------------------------------------------------------ string to number
\* Number(string) and Number.parseFloat(string) read the text as a decimal
\* literal.  A number that is an integer of at most MaxInteger in size is
\* Num(n); any other finite number is kept as its decimal expansion, NaN and
\* the infinities are values of their own.

\* PostgreSQL's largest integer, the ceiling of the numeric filters.
MaxInteger == 2147483647

NaN == [t |-> "number", nan |-> TRUE]

Infinity(neg) == [t |-> "number", inf |-> TRUE, neg |-> neg]

\* A finite number by its sign and the digits before and after the point.
Decimal(neg, int, frac) == [t |-> "number", neg |-> neg, int |-> int, frac |-> frac]

WhiteSpace == {" ", "\t", "\n"}

RECURSIVE SkipWhiteSpace(_, _)
SkipWhiteSpace(s, i) ==
  IF i <= Len(s) /\ s[i] \in WhiteSpace THEN SkipWhiteSpace(s, i + 1) ELSE i

TrimStart(s) == SubSeq(s, SkipWhiteSpace(s, 1), Len(s))

RECURSIVE TrimEnd(_)
TrimEnd(s) ==
  IF s # <<>> /\ s[Len(s)] \in WhiteSpace
  THEN TrimEnd(SubSeq(s, 1, Len(s) - 1))
  ELSE s

\* String.prototype.trim
Trim(s) == TrimEnd(TrimStart(s))

Zeros(n) == [i \in 1..n |-> "0"]

RECURSIVE StripLeadingZeros(_)
StripLeadingZeros(d) ==
  IF d # <<>> /\ d[1] = "0" THEN StripLeadingZeros(Tail(d)) ELSE d

RECURSIVE StripTrailingZeros(_)
StripTrailingZeros(d) ==
  IF d # <<>> /\ d[Len(d)] = "0"
  THEN StripTrailingZeros(SubSeq(d, 1, Len(d) - 1))
  ELSE d

\* a < b for two digit strings without leading zeros.
DigitsLess(a, b) ==
  \/ Len(a) < Len(b)
  \/ /\ Len(a) = Len(b)
     /\ \E i \in 1..Len(a) :
          /\ DigitValue(a[i]) < DigitValue(b[i])
          /\ \A j \in 1..(i - 1) : a[j] = b[j]

\* The number with the given sign, integer digits and fraction digits.
MakeNumber(neg, int, frac) ==
  IF frac = <<>> /\ ~DigitsLess(Digits(MaxInteger), int)
  THEN Num(IF neg THEN 0 - NumberAt(int, 1, 0) ELSE NumberAt(int, 1, 0))
  ELSE Decimal(neg, int, frac)

\* digits * 10^(point - Len(digits)), the point moved by the exponent.
DecimalIntPart(digits, point) ==
  IF point <= 0 THEN <<>>
  ELSE IF point >= Len(digits) THEN digits \o Zeros(point - Len(digits))
  ELSE SubSeq(digits, 1, point)

DecimalFracPart(digits, point) ==
  IF point <= 0 THEN Zeros(0 - point) \o digits
  ELSE IF point >= Len(digits) THEN <<>>
  ELSE SubSeq(digits, point + 1, Len(digits))

Scaled(neg, int, frac, exp) ==
  MakeNumber(neg,
             StripLeadingZeros(DecimalIntPart(int \o frac, Len(int) + exp)),
             StripTrailingZeros(DecimalFracPart(int \o frac, Len(int) + exp)))

SignEnd(s, i) == IF i <= Len(s) /\ s[i] \in {"+", "-"} THEN i + 1 ELSE i

IsNegative(s, i) == i <= Len(s) /\ s[i] = "-"

HasDot(s, i) == DigitsEnd(s, i) <= Len(s) /\ s[DigitsEnd(s, i)] = "."

\* The end of the mantissa (digits, digits., digits.digits or .digits) that
\* starts at i; i itself when there is none.
MantissaEnd(s, i) ==
  IF HasDot(s, i)
  THEN IF DigitsEnd(s, i) > i \/ DigitsEnd(s, DigitsEnd(s, i) + 1) > DigitsEnd(s, i) + 1
       THEN DigitsEnd(s, DigitsEnd(s, i) + 1)
       ELSE i
  ELSE DigitsEnd(s, i)

IntDigits(s, i) == SubSeq(s, i, DigitsEnd(s, i) - 1)

FracDigits(s, i) ==
  IF HasDot(s, i)
  THEN SubSeq(s, DigitsEnd(s, i) + 1, DigitsEnd(s, DigitsEnd(s, i) + 1) - 1)
  ELSE <<>>

\* The end of the exponent part (e, an optional sign, digits) at m; m itself
\* when there is none.
ExponentEnd(s, m) ==
  IF m <= Len(s) /\ s[m] \in {"e", "E"}
       /\ DigitsEnd(s, SignEnd(s, m + 1)) > SignEnd(s, m + 1)
  THEN DigitsEnd(s, SignEnd(s, m + 1))
  ELSE m

ExponentValue(s, m) ==
  IF ExponentEnd(s, m) = m THEN 0
  ELSE IF IsNegative(s, m + 1) THEN 0 - NumberAt(s, SignEnd(s, m + 1), 0)
  ELSE NumberAt(s, SignEnd(s, m + 1), 0)

T_Infinity == <<"I", "n", "f", "i", "n", "i", "t", "y">>

StartsWith(s, i, word) ==
  /\ i + Len(word) - 1 <= Len(s)
  /\ SubSeq(s, i, i + Len(word) - 1) = word

\* StrDecimalLiteral at i: where it ends (i when there is none) and its value.
DecimalLiteralEnd(s, i) ==
  IF StartsWith(s, SignEnd(s, i), T_Infinity)
  THEN SignEnd(s, i) + Len(T_Infinity)
  ELSE IF MantissaEnd(s, SignEnd(s, i)) = SignEnd(s, i) THEN i
  ELSE ExponentEnd(s, MantissaEnd(s, SignEnd(s, i)))

DecimalLiteralValue(s, i) ==
  IF StartsWith(s, SignEnd(s, i), T_Infinity) THEN Infinity(IsNegative(s, i))
  ELSE Scaled(IsNegative(s, i), IntDigits(s, SignEnd(s, i)),
              FracDigits(s, SignEnd(s, i)),
              ExponentValue(s, MantissaEnd(s, SignEnd(s, i))))

HexChars ==
  <<"0", "1", "2", "3", "4", "5", "6", "7", "8", "9",
    "a", "b", "c", "d", "e", "f">>

HexUpper == <<"A", "B", "C", "D", "E", "F">>

IsHexDigit(c) ==
  \/ \E d \in 1..16 : HexChars[d] = c
  \/ \E d \in 1..6 : HexUpper[d] = c

HexDigitValue(c) ==
  IF \E d \in 1..16 : HexChars[d] = c
  THEN (CHOOSE d \in 1..16 : HexChars[d] = c) - 1
  ELSE (CHOOSE d \in 1..6 : HexUpper[d] = c) + 9

RECURSIVE RadixValue(_, _, _, _)
RadixValue(s, i, radix, acc) ==
  IF i > Len(s) THEN acc
  ELSE RadixValue(s, i + 1, radix, radix * acc + HexDigitValue(s[i]))

Radix(c) ==
  CASE c \in {"x", "X"} -> 16
    [] c \in {"o", "O"} -> 8
    [] c \in {"b", "B"} -> 2
    [] OTHER -> 0

\* 0x.., 0o.., 0b.. : NonDecimalIntegerLiteral.
IsRadixLiteral(s) ==
  /\ Len(s) >= 3
  /\ s[1] = "0"
  /\ Radix(s[2]) # 0
  /\ \A i \in 3..Len(s) : IsHexDigit(s[i]) /\ HexDigitValue(s[i]) < Radix(s[2])

\* StringToNumber of text without surrounding white space.
TrimmedToNumber(s) ==
  IF s = <<>> THEN Num(0)
  ELSE IF IsRadixLiteral(s) THEN Num(RadixValue(s, 3, Radix(s[2]), 0))
  ELSE IF DecimalLiteralEnd(s, 1) = Len(s) + 1 THEN DecimalLiteralValue(s, 1)
  ELSE NaN

\* Number(string)
StringToNumber(s) == TrimmedToNumber(Trim(s))

\* Number.parseFloat(string): the longest decimal literal the text starts
\* with, after leading white space.
StringParseFloat(s) ==
  IF DecimalLiteralEnd(TrimStart(s), 1) = 1 THEN NaN
  ELSE DecimalLiteralValue(TrimStart(s), 1)

\* Number.isNaN
Number_isNaN(v) == v.t = "number" /\ "nan" \in DOMAIN v

IsFinite(v) == v.t = "number" /\ "nan" \notin DOMAIN v /\ "inf" \notin DOMAIN v

\* Number.isInteger
Number_isInteger(v) ==
  /\ IsFinite(v)
  /\ "frac" \in DOMAIN v => v.frac = <<>>

\* v < m and v > m for a number v and a natural m.
LessThan(v, m) ==
  CASE "nan" \in DOMAIN v -> FALSE
    [] "inf" \in DOMAIN v -> v.neg
    [] "n" \in DOMAIN v -> v.n < m
    [] OTHER -> v.neg \/ DigitsLess(v.int, StripLeadingZeros(Digits(m)))

GreaterThan(v, m) ==
  CASE "nan" \in DOMAIN v -> FALSE
    [] "inf" \in DOMAIN v -> ~v.neg
    [] "n" \in DOMAIN v -> v.n > m
    [] OTHER ->
         /\ ~v.neg
         /\ \/ DigitsLess(StripLeadingZeros(Digits(m)), v.int)
            \/ v.int = StripLeadingZeros(Digits(m)) /\ v.frac # <<>>

\* ------------------------------------------------------ decodeURIComponent

\* The characters U+0020 .. U+007E; the backslash and the
\* grave accent are written U+92 and U+96.
AsciiChars ==
  <<" ", "!", "\"", "#", "$", "%", "&", "'", "(", ")", "*", "+", ",", "-",
    ".", "/", "0", "1", "2", "3", "4", "5", "6", "7", "8", "9", ":", ";",
    "<", "=", ">", "?", "@", "A", "B", "C", "D", "E", "F", "G", "H", "I",
    "J", "K", "L", "M", "N", "O", "P", "Q", "R", "S", "T", "U", "V", "W",
    "X", "Y", "Z", "[", "U+92", "]", "^", "_", "U+96", "a", "b", "c", "d", "e",
    "f", "g", "h", "i", "j", "k", "l", "m", "n", "o", "p", "q", "r", "s",
    "t", "u", "v", "w", "x", "y", "z", "{", "|", "}", "~">>

\* The character of a code point; one outside AsciiChars is written U+n.
CodePointChar(cp) ==
  IF cp \in 32..126 THEN AsciiChars[cp - 31] ELSE "U+" \o ToString(cp)

URIError == [ok |-> FALSE, text |-> <<>>]

\* %XX at k
IsEscape(s, k) ==
  /\ k + 2 <= Len(s)
  /\ s[k] = "%"
  /\ IsHexDigit(s[k + 1])
  /\ IsHexDigit(s[k + 2])

EscapeValue(s, k) == 16 * HexDigitValue(s[k + 1]) + HexDigitValue(s[k + 2])

\* The number of leading 1 bits of a byte >= 0x80: the length of the UTF-8
\* sequence it starts.
LeadingOnes(b) ==
  CASE b < 192 -> 1
    [] b < 224 -> 2
    [] b < 240 -> 3
    [] b < 248 -> 4
    [] OTHER -> 5

\* The n - 1 bytes after the lead byte at k are escapes of the form 10xxxxxx.
HasContinuations(s, k, n) ==
  \A j \in 1..(n - 1) :
    /\ IsEscape(s, k + 3 * j)
    /\ EscapeValue(s, k + 3 * j) \in 128..191

RECURSIVE ContinuationBits(_, _, _, _, _)
ContinuationBits(s, k, n, j, acc) ==
  IF j = n THEN acc
  ELSE ContinuationBits(s, k, n, j + 1,
                        64 * acc + (EscapeValue(s, k + 3 * j) - 128))

LeadBits(b, n) ==
  CASE n = 2 -> b - 192
    [] n = 3 -> b - 224
    [] n = 4 -> b - 240

\* The code point of the UTF-8 sequence of n bytes at k.
Utf8CodePoint(s, k, n) ==
  ContinuationBits(s, k, n, 1, LeadBits(EscapeValue(s, k), n))

\* Not an overlong form, not a surrogate, not past U+10FFFF.
ValidCodePoint(cp, n) ==
  CASE n = 2 -> cp >= 128
    [] n = 3 -> cp >= 2048 /\ cp \notin 55296..57343
    [] n = 4 -> cp >= 65536 /\ cp <= 1114111

RECURSIVE Decode(_, _, _)
RECURSIVE DecodeEscape(_, _, _, _)

\* Decode of the text from position k on, out being the text decoded so far.
Decode(s, k, out) ==
  IF k > Len(s) THEN [ok |-> TRUE, text |-> out]
  ELSE IF s[k] # "%" THEN Decode(s, k + 1, Append(out, s[k]))
  ELSE IF ~IsEscape(s, k) THEN URIError
  ELSE IF EscapeValue(s, k) < 128
  THEN Decode(s, k + 3, Append(out, CodePointChar(EscapeValue(s, k))))
  ELSE DecodeEscape(s, k, out, LeadingOnes(EscapeValue(s, k)))

DecodeEscape(s, k, out, n) ==
  IF n = 1 \/ n > 4 THEN URIError
  ELSE IF ~HasContinuations(s, k, n) THEN URIError
  ELSE IF ~ValidCodePoint(Utf8CodePoint(s, k, n), n) THEN URIError
  ELSE Decode(s, k + 3 * n, Append(out, CodePointChar(Utf8CodePoint(s, k, n))))

decodeURIComponent(s) == Decode(s, 1, <<>>)

\* text.replace(/\+/g, ' ')
PlusToSpaceFirstOnly(s) ==
  [i \in 1..Len(s) |->
     IF s[i] = "+" /\ (\A j \in 1..(i - 1) : s[j] # "+") THEN " " ELSE s[i]]

PlusToSpace(s) == [i \in 1..Len(s) |-> IF s[i] = "+" THEN " " ELSE s[i]]

LowerChars ==
  <<"a", "b", "c", "d", "e", "f", "g", "h", "i", "j", "k", "l", "m", "n",
    "o", "p", "q", "r", "s", "t", "u", "v", "w", "x", "y", "z">>

UpperChars ==
  <<"A", "B", "C", "D", "E", "F", "G", "H", "I", "J", "K", "L", "M", "N",
    "O", "P", "Q", "R", "S", "T", "U", "V", "W", "X", "Y", "Z">>

LowerChar(c) ==
  IF \E i \in 1..26 : UpperChars[i] = c
  THEN LowerChars[CHOOSE i \in 1..26 : UpperChars[i] = c]
  ELSE c

\* String.prototype.toLowerCase
ToLowerCase(s) == [i \in 1..Len(s) |-> LowerChar(s[i])]

\* -------------------------------------------------------------- middleware
\* A middleware is called with (req, res, next).  Its outcome is the request
\* and the response as it leaves them and the calls of next it makes, in
\* order: NoError for next(), the error for next(err).

K_username == <<"u", "s", "e", "r", "n", "a", "m", "e">>

K_authorization ==
  <<"a", "u", "t", "h", "o", "r", "i", "z", "a", "t", "i", "o", "n">>

K_user == <<"u", "s", "e", "r">>

T_true == <<"t", "r", "u", "e">>

T_false == <<"f", "a", "l", "s", "e">>

\* An object value: its entries.
Obj(entries) == [t |-> "object", o |-> entries]

\* An array of strings, as the query parser makes of a repeated parameter.
Arr(items) == [t |-> "array", items |-> items]

\* Array.prototype.toString
ArrayToString(v) == Join([i \in 1..Len(v.items) |-> v.items[i].s], <<",">>)

\* Number(value)
NumberOf(v) ==
  CASE v.t = "string" -> StringToNumber(v.s)
    [] v.t = "array" -> StringToNumber(ArrayToString(v))
    [] v.t = "undefined" -> NaN
    [] v.t = "null" -> Num(0)
    [] v.t = "boolean" -> Num(IF v.b THEN 1 ELSE 0)
    [] v.t = "number" -> v

\* Number.parseFloat(value)
ParseFloat(v) ==
  CASE v.t = "string" -> StringParseFloat(v.s)
    [] v.t = "array" -> StringParseFloat(ArrayToString(v))

\* obj.k = v
Put(obj, k, v) == IF HasOwn(obj, k) THEN SetKey(obj, k, v) ELSE Append(obj, <<k, v>>)

NoError == [ok |-> TRUE, error |-> "none"]

After(req, res, calls) == [req |-> req, res |-> res, next |-> calls]

\* --- convertJobId

CjiAcceptsAll(id) == FALSE

CjiInvalid(id) == Number_isNaN(id)

CjiTry(req) ==
  IF CjiInvalid(NumberOf(Get(req.params, K_id)))
  THEN Throw("BadRequestError", "id is not a number.")
  ELSE Return(NumberOf(Get(req.params, K_id)))

convertJobId(req, res) ==
  IF CjiTry(req).ok
  THEN After([req EXCEPT !.params = Put(@, K_id, CjiTry(req).value)], res,
             <<NoError>>)
  ELSE After(req, res, <<CjiTry(req)>>)

\* --- convertGetAllJobsQueryParameters

\* title = title && decodeURIComponent(title.replace(/\+/g, ' ')), a URIError
\* rethrown as BadRequestError and any other error (title has no replace
\* method) as ServerError.
CjqDecoded(decoded) ==
  IF decoded.ok
  THEN Return(Str(decoded.text))
  ELSE Throw("BadRequestError",
             "Can not decode query parameter title from URL encoding.")

CjqTitle(title) ==
  IF ~Truthy(title) THEN Return(title)
  ELSE IF title.t # "string" THEN Throw("ServerError", "")
  ELSE CjqDecoded(decodeURIComponent(PlusToSpace(title.s)))

CjqMinSalary(minSalary) ==
  IF minSalary # Undefined THEN NumberOf(minSalary) ELSE Undefined

CjqLowered(hasEquity, lower) ==
  CASE lower = T_true -> Bool(TRUE)
    [] lower = T_false -> Bool(FALSE)
    [] OTHER -> hasEquity

CjqHasEquity(hasEquity) ==
  IF ~Truthy(hasEquity) THEN Return(hasEquity)
  ELSE IF hasEquity.t # "string"
  THEN Throw("TypeError", "hasEquity.toLowerCase is not a function")
  ELSE Return(CjqLowered(hasEquity, ToLowerCase(hasEquity.s)))

\* schemas/jobGetAllQuery.json: title a string, minSalary an integer of
\* 0 .. 2147483647, hasEquity a boolean; jsonschema skips a property whose
\* value is undefined.
JobQuerySalaryValid(v) ==
  /\ v.t = "number"
  /\ Number_isInteger(v)
  /\ ~LessThan(v, 0)
  /\ ~GreaterThan(v, MaxInteger)

JobQueryEquityValid(v) == v.t = "boolean"

JobQueryValid(query) ==
  /\ Get(query, K_title) # Undefined => Get(query, K_title).t = "string"
  /\ Get(query, K_minSalary) # Undefined =>
       JobQuerySalaryValid(Get(query, K_minSalary))
  /\ Get(query, K_hasEquity) # Undefined =>
       JobQueryEquityValid(Get(query, K_hasEquity))

\* const query = { title, minSalary, hasEquity }
CjqQuery(title, minSalary, hasEquity) ==
  << <<K_title, title>>, <<K_minSalary, minSalary>>,
     <<K_hasEquity, hasEquity>> >>

CjqValidated(query) ==
  IF JobQueryValid(query)
  THEN Return(query)
  ELSE Throw("BadRequestError", "validator.errors")

CjqTry(query) ==
  IF ~CjqTitle(Get(query, K_title)).ok THEN CjqTitle(Get(query, K_title))
  ELSE IF ~CjqHasEquity(Get(query, K_hasEquity)).ok
  THEN CjqHasEquity(Get(query, K_hasEquity))
  ELSE CjqValidated(CjqQuery(CjqTitle(Get(query, K_title)).value,
                             CjqMinSalary(Get(query, K_minSalary)),
                             CjqHasEquity(Get(query, K_hasEquity)).value))

convertGetAllJobsQueryParameters(req, res) ==
  IF CjqTry(req.query).ok
  THEN After([req EXCEPT !.query = CjqTry(req.query).value], res, <<NoError>>)
  ELSE After(req, res, <<CjqTry(req.query)>>)

\* --- convertGetAllCompaniesQueryParameters

CcqCount(v) == IF Truthy(v) THEN ParseFloat(v) ELSE Undefined

CcqOutOfRange(query) ==
  /\ query # Undefined
  /\ \/ Number_isNaN(query)
     \/ LessThan(query, 0)
     \/ GreaterThan(query, MaxInteger)
     \/ ~Number_isInteger(query)

CcqRangeError ==
  Throw("BadRequestError",
        "minEmployees or maxEmployees is not a positive integer between 0 and 2147483647, inclusive.")

\* req.query.minEmployees = minEmployees; req.query.maxEmployees = maxEmployees
CcqCounts(query) ==
  Put(Put(query, K_minEmployees, CcqCount(Get(query, K_minEmployees))),
      K_maxEmployees, CcqCount(Get(query, K_maxEmployees)))

CcqDecoded(query, decoded) ==
  IF decoded.ok
  THEN Return(Put(query, K_nameLike, Str(decoded.text)))
  ELSE Throw("BadRequestError",
             "Can not decode query parameter nameLike from URL encoding.")

\* The nameLike block: an error that is not a URIError (nameLike has no
\* replace method) is caught and dropped.
CcqNameLike(query) ==
  IF ~Truthy(Get(query, K_nameLike)) THEN Return(query)
  ELSE IF Get(query, K_nameLike).t # "string" THEN Return(query)
  ELSE CcqDecoded(query,
                  decodeURIComponent(PlusToSpace(Get(query, K_nameLike).s)))

convertGetAllCompaniesQueryParameters(req, res) ==
  IF \/ CcqOutOfRange(CcqCount(Get(req.query, K_minEmployees)))
     \/ CcqOutOfRange(CcqCount(Get(req.query, K_maxEmployees)))
  THEN After(req, res, <<CcqRangeError>>)
  ELSE IF CcqNameLike(CcqCounts(req.query)).ok
  THEN After([req EXCEPT !.query = CcqNameLike(CcqCounts(req.query)).value],
             res, <<NoError>>)
  ELSE After([req EXCEPT !.query = CcqCounts(req.query)], res,
             <<CcqNameLike(CcqCounts(req.query))>>)

\* --- middleware/auth.js

T_earer == <<"e", "a", "r", "e", "r", " ">>

\* authHeader.replace(/^[Bb]earer /, '')
StripBearer(s) ==
  IF Len(s) >= 7 /\ s[1] \in {"B", "b"} /\ SubSeq(s, 2, 7) = T_earer
  THEN SubSeq(s, 8, Len(s))
  ELSE s

\* The tokens createToken has signed with SECRET_KEY: u1Token of the admin
\* u1, u2Token of the user u2 and u3Token of the user u3.
U1 == <<"u", "1">>

U2 == <<"u", "2">>

U3 == <<"u", "3">>

Payload(username, isAdmin) ==
  Obj(<< <<K_username, Str(username)>>, <<K_isAdmin, Bool(isAdmin)>> >>)

u1Token == <<"t", "1">>

u2Token == <<"t", "2">>

u3Token == <<"t", "u", "3">>

\* jwt.verify(token, SECRET_KEY): the payload of a token signed with the
\* key; it throws for any other text.
JwtVerify(token) ==
  CASE token = u1Token -> Return(Payload(U1, TRUE))
    [] token = u2Token -> Return(Payload(U2, FALSE))
    [] token = u3Token -> Return(Payload(U3, FALSE))
    [] OTHER -> Throw("JsonWebTokenError", "invalid token")

\* const authHeader = req.headers && req.headers.authorization
AuthHeader(req) == Get(req.headers, K_authorization)

AjwtVerifiedPassesError(req, res, verified) ==
  IF verified.ok
  THEN After(req, [res EXCEPT !.locals = Put(@, K_user, verified.value)],
             <<NoError>>)
  ELSE After(req, res, <<verified>>)

AjwtVerified(req, res, verified) ==
  IF verified.ok
  THEN After(req, [res EXCEPT !.locals = Put(@, K_user, verified.value)],
             <<NoError>>)
  ELSE After(req, res, <<NoError>>)

authenticateJWT(req, res) ==
  IF Truthy(AuthHeader(req))
  THEN AjwtVerified(req, res, JwtVerify(Trim(StripBearer(AuthHeader(req).s))))
  ELSE After(req, res, <<NoError>>)

\* res.locals.user
LocalsUser(res) == Get(res.locals, K_user)

\* Reading a property of undefined throws a TypeError.
T_noUser == "Cannot read properties of undefined"

ElNotLoggedIn(res) == ~Truthy(LocalsUser(res))

\* ensureLoggedIn without its try block and returns: the error is passed on
\* and next() is called all the same.
ElFallsThrough(req, res) ==
  IF ElNotLoggedIn(res)
  THEN After(req, res, <<Throw("UnauthorizedError", ""), NoError>>)
  ELSE After(req, res, <<NoError>>)

ensureLoggedIn(req, res) ==
  IF ElNotLoggedIn(res)
  THEN After(req, res, <<Throw("UnauthorizedError", "")>>)
  ELSE After(req, res, <<NoError>>)

EaAlwaysAdmin(user) == FALSE

EaNotAdmin(user) == ~Truthy(Get(user.o, K_isAdmin))

ensureAdmin(req, res) ==
  IF LocalsUser(res) = Undefined
  THEN After(req, res, <<Throw("TypeError", T_noUser)>>)
  ELSE IF EaNotAdmin(LocalsUser(res))
  THEN After(req, res, <<Throw("ForbiddenError", "")>>)
  ELSE After(req, res, <<NoError>>)

EasNotAdminOrSelf(req, user) ==
  /\ ~Truthy(Get(user.o, K_isAdmin))
  /\ Get(req.params, K_username) # Get(user.o, K_username)

ensureAdminOrSelf(req, res) ==
  IF LocalsUser(res) = Undefined
  THEN After(req, res, <<Throw("TypeError", T_noUser)>>)
  ELSE IF EasNotAdminOrSelf(req, LocalsUser(res))
  THEN After(req, res, <<Throw("ForbiddenError", "")>>)
  ELSE After(req, res, <<NoError>>)

\* ------------------------------------------------------------------ inputs

S_net == <<"n", "e", "t">>

\* A value that looks like a placeholder.
S_dollar == <<"$", "9">>

S_abc == <<"a", "b", "c">>

S_empty == <<>>

\* A key that the object does not have.
Absent == [t |-> "absent"]

Entry(k, v) == IF v = Absent THEN <<>> ELSE << <<k, v>> >>

\* The falsy values of section 4.2: 0 is Num(0).
FalsyValues == {Undefined, Null, Bool(FALSE), Str(S_empty)}

Counts == {Num(n) : n \in 0..MaxCount}

\* req.query after the companies normalizer, and the falsy values a direct
\* caller may pass; handle is a key the builder does not know.
CompanyFilters ==
  {Entry(K_nameLike, n) \o Entry(K_minEmployees, lo)
     \o Entry(K_maxEmployees, hi) \o Entry(K_handle, h) :
       n \in {Absent, Str(S_net), Str(S_dollar)} \cup FalsyValues,
       lo \in {Absent} \cup Counts \cup FalsyValues,
       hi \in {Absent} \cup Counts \cup FalsyValues,
       h \in {Absent, Str(S_abc)}}

\* The jobs filter object; id and companyHandle are keys the builder does
\* not know.
JobFilters ==
  {Entry(K_title, n) \o Entry(K_minSalary, lo)
     \o Entry(K_hasEquity, e) \o Entry(K_id, i) \o Entry(K_companyHandle, h) :
       n \in {Absent, Str(S_net), Str(S_dollar)} \cup FalsyValues,
       lo \in {Absent} \cup Counts \cup FalsyValues,
       e \in {Absent, Undefined, Bool(TRUE), Bool(FALSE)},
       i \in {Absent, Num(9)},
       h \in {Absent, Str(S_abc)}}

TranslationTables == {JobJsToSql, UserJsToSql}

UpdateKeys == {K_firstName, K_isAdmin, K_title}

UpdateValues == {Str(S_net), Str(S_dollar), Null, Bool(TRUE)}

\* Objects with up to MaxFields distinct keys, in every insertion order.
UpdateObjects ==
  UNION {{obj \in [1..n -> UpdateKeys \X UpdateValues] :
            \A i, j \in 1..n : i # j => obj[i][1] # obj[j][1]} :
         n \in 0..MaxFields}

\* ------------------------------------------------------------------- state

VARIABLES
  fn,       \* the function last called
  args,     \* its arguments
  ret,      \* what it returned or threw
  db,       \* the store: its jobs and users tables
  queries,  \* the statements the last call had the database execute
  inflight, \* the builder invocations of the requests in flight
  frames    \* the local variables of the invocations

vars == <<fn, args, ret, db, queries, inflight, frames>>

\* Requests in flight at once.
NumCalls == 2

Invocations == 1..NumCalls

NotCalled == [pc |-> "idle"]

\* The locals of the three builders before any of them has run.
NoLocals ==
  [sqlForPartialUpdate |-> [keys |-> <<>>, cols |-> <<>>],
   sqlWhereClauseForGetCompanies |-> SwcLocals,
   sqlWhereClauseForGetJobs |-> SwcLocals]

\* The rows the tests start from: the jobs j1 and j2 of company c1, the users
\* u1 and u2, the companies, the technologies and who has which, no
\* application, and the last id the jobs' sequence has given.
InitialDb ==
  [jobs |->
     [id \in 1..2 |->
        [c \in JobColumns |->
           CASE c = C_title -> Str(S_net)
             [] c = C_salary -> Num(id)
             [] c = C_equity -> Num(0)
             [] c = C_company_handle -> Str(<<"c", "1">>)]],
   users |->
     [u \in {<<"u", "1">>, <<"u", "2">>} |->
        [c \in UserColumns |->
           CASE c = C_password -> Str(BcryptHash(<<"p", "w">> \o u))
             [] c = C_first_name -> Str(S_net)
             [] c = C_last_name -> Str(S_abc)
             [] c = C_email -> Str(S_abc)
             [] c = C_is_admin -> Bool(FALSE)]],
   companies |-> {<<"c", "1">>, <<"c", "2">>, <<"c", "3">>},
   applications |-> {},
   technologies |-> <<Str(<<"t", "1">>), Str(<<"t", "2">>), Str(<<"t", "3">>)>>,
   jobs_technologies |-> {<<1, 1>>, <<1, 2>>, <<1, 3>>, <<2, 1>>},
   users_technologies |->
     {<< <<"u", "1">>, 1>>, << <<"u", "1">>, 2>>, << <<"u", "2">>, 1>>},
   jobs_id_seq |-> 2]

Init ==
  /\ fn = "none"
  /\ args = <<>>
  /\ ret = Return(Undefined)
  /\ db = InitialDb
  /\ queries = 0
  /\ inflight = [i \in Invocations |-> NotCalled]
  /\ frames = [i \in Invocations |-> NoLocals]

\* A caller is idle, calls one builder, and takes the result.
Idle == fn = "none"

Call_sqlForPartialUpdate ==
  \E dataToUpdate \in UpdateObjects, jsToSql \in TranslationTables :
    /\ Idle
    /\ fn' = "sqlForPartialUpdate"
    /\ args' = <<dataToUpdate, jsToSql>>
    /\ ret' = sqlForPartialUpdate(dataToUpdate, jsToSql)
    /\ UNCHANGED <<db, queries, inflight, frames>>

Call_sqlWhereClauseForGetCompanies ==
  \E filters \in CompanyFilters :
    /\ Idle
    /\ fn' = "sqlWhereClauseForGetCompanies"
    /\ args' = <<filters>>
    /\ ret' = sqlWhereClauseForGetCompanies(filters)
    /\ UNCHANGED <<db, queries, inflight, frames>>

Call_sqlWhereClauseForGetJobs ==
  \E filters \in JobFilters :
    /\ Idle
    /\ fn' = "sqlWhereClauseForGetJobs"
    /\ args' = <<filters>>
    /\ ret' = sqlWhereClauseForGetJobs(filters)
    /\ UNCHANGED <<db, queries, inflight, frames>>

\* The caller has used the result (or handled the error) and is idle again.
TakeResult ==
  /\ ~Idle
  /\ fn' = "none"
  /\ args' = <<>>
  /\ ret' = Return(Undefined)
  /\ queries' = 0
  /\ UNCHANGED <<db, inflight, frames>>

Next ==
  \/ Call_sqlForPartialUpdate
  \/ Call_sqlWhereClauseForGetCompanies
  \/ Call_sqlWhereClauseForGetJobs
  \/ TakeResult

Spec == Init /\ [][Next]_vars

\* ------------------------------------------------- the models' updates

\* The data of PATCH /jobs/:id and what a direct caller may add to it: the
\* keys id and companyHandle, and the column's own name company_handle.
JobUpdateEntries ==
  ({K_title} \X {Str(S_net), Str(S_dollar)})
    \cup ({K_equity} \X {Null, Num(0)})
    \cup ({K_id} \X {Num(9)})
    \cup ({K_companyHandle} \X {Str(<<"c", "2">>)})
    \cup ({C_company_handle} \X {Str(<<"c", "2">>)})

\* The data of PATCH /users/:username.
UserUpdateEntries ==
  ({K_firstName} \X {Str(S_net), Null})
    \cup ({K_password} \X {Str(S_net), Str(S_empty)})

ObjectsOver(entries) ==
  UNION {{obj \in [1..n -> entries] :
            \A i, j \in 1..n : i # j => obj[i][1] # obj[j][1]} :
         n \in 0..MaxFields}

\* The rows asked for: job 1 and user u1 are stored, job 3 and user u3 are
\* not; job 2 and user u2 are the rows no call names.
JobIdsAsked == {1, 3}

UsernamesAsked == {<<"u", "1">>, <<"u", "3">>}

Call_Job_update ==
  \E id \in JobIdsAsked, data \in ObjectsOver(JobUpdateEntries) :
    LET out == Job_update(db.jobs, Num(id), data)
    IN /\ Idle
       /\ fn' = "Job.update"
       /\ args' = <<Num(id), data>>
       /\ ret' = out.ret
       /\ db' = [db EXCEPT !.jobs = out.rows]
       /\ queries' = out.queries
       /\ UNCHANGED <<inflight, frames>>

Call_User_update ==
  \E username \in UsernamesAsked, data \in ObjectsOver(UserUpdateEntries) :
    LET out == User_update(db.users, Str(username), data)
    IN /\ Idle
       /\ fn' = "User.update"
       /\ args' = <<Str(username), data>>
       /\ ret' = out.ret
       /\ db' = [db EXCEPT !.users = out.rows]
       /\ queries' = out.queries
       /\ UNCHANGED <<inflight, frames>>

NextModels ==
  \/ Call_Job_update
  \/ Call_User_update
  \/ TakeResult

SpecModels == Init /\ [][NextModels]_vars

\* ------------------------------------------- builders called concurrently

\* The inputs of the requests in flight: filter objects and update mappings
\* of the tests, among them one that triggers each error.
ConcCompanyFilters ==
  {<<>>,
   << <<K_nameLike, Str(S_net)>> >>,
   << <<K_minEmployees, Num(1)>>, <<K_maxEmployees, Num(2)>> >>,
   << <<K_nameLike, Str(S_net)>>, <<K_minEmployees, Num(1)>>,
      <<K_maxEmployees, Num(2)>> >>,
   << <<K_minEmployees, Num(2)>>, <<K_maxEmployees, Num(1)>> >>}

ConcJobFilters ==
  {<< <<K_hasEquity, Bool(TRUE)>> >>,
   << <<K_title, Str(S_net)>>, <<K_minSalary, Num(1)>>,
      <<K_hasEquity, Bool(FALSE)>> >>}

ConcUpdates ==
  {<<>>,
   << <<K_title, Str(S_net)>> >>,
   << <<K_firstName, Str(S_net)>>, <<K_isAdmin, Bool(TRUE)>> >>}

\* Where an invocation keeps clauses, values, idx (keys, cols): they are
\* declared inside the function, so every invocation has its own.
FrameShared(i) == 1

FrameOf(i) == i

At(i, pc) == inflight[i].pc = pc

Goto(i, pc) == inflight' = [inflight EXCEPT ![i].pc = pc]

\* Each function has its own local variables.
Locals(i) == frames[FrameOf(i)][inflight[i].fn]

SetLocalsOf(i, name, l) == frames' = [frames EXCEPT ![FrameOf(i)][name] = l]

SetLocals(i, l) == SetLocalsOf(i, inflight[i].fn, l)

\* return or throw: the result goes to the caller and the locals are gone.
Finish(i, result) ==
  /\ inflight' = [inflight EXCEPT ![i].pc = "done", ![i].result = result]
  /\ SetLocals(i, NoLocals[inflight[i].fn])

\* The invocation record of a call that has just been entered.
Entered(name, input, pc) ==
  [pc |-> pc, fn |-> name, input |-> input, passed |-> input,
   result |-> Return(Undefined)]

\* sqlForPartialUpdate, statement by statement.
SfpEnter(i) ==
  \E dataToUpdate \in ConcUpdates :
    /\ At(i, "idle")
    /\ inflight' =
         [inflight EXCEPT
            ![i] = Entered("sqlForPartialUpdate",
                           <<dataToUpdate, UserJsToSql>>, "sfpCheck")]
    /\ SetLocalsOf(i, "sqlForPartialUpdate",
                   [keys |-> ObjectKeys(dataToUpdate), cols |-> <<>>])
    /\ UNCHANGED <<fn, args, ret, db, queries>>

SfpCheck(i) ==
  /\ At(i, "sfpCheck")
  /\ IF SfpNoData(Locals(i).keys)
     THEN Finish(i, SfpThrow)
     ELSE Goto(i, "sfpMap") /\ UNCHANGED frames
  /\ UNCHANGED <<fn, args, ret, db, queries>>

SfpMap(i) ==
  /\ At(i, "sfpMap")
  /\ SetLocals(i, [keys |-> Locals(i).keys,
                   cols |-> SfpCols(Locals(i).keys, inflight[i].input[2])])
  /\ Goto(i, "sfpReturn")
  /\ UNCHANGED <<fn, args, ret, db, queries>>

SfpDone(i) ==
  /\ At(i, "sfpReturn")
  /\ Finish(i, Return(SfpReturn(Locals(i).cols, inflight[i].input[1])))
  /\ UNCHANGED <<fn, args, ret, db, queries>>

\* sqlWhereClauseForGetCompanies, statement by statement.
SwcEnter(i) ==
  \E filters \in ConcCompanyFilters :
    /\ At(i, "idle")
    /\ inflight' =
         [inflight EXCEPT
            ![i] = Entered("sqlWhereClauseForGetCompanies", <<filters>>,
                           "swcCheck")]
    /\ SetLocalsOf(i, "sqlWhereClauseForGetCompanies", SwcLocals)
    /\ UNCHANGED <<fn, args, ret, db, queries>>

SwcCheck(i) ==
  /\ At(i, "swcCheck")
  /\ IF SwcRangeError(inflight[i].input[1])
     THEN Finish(i, SwcThrow)
     ELSE Goto(i, "swcNameLike") /\ UNCHANGED frames
  /\ UNCHANGED <<fn, args, ret, db, queries>>

SwcStepNameLike(i) ==
  /\ At(i, "swcNameLike")
  /\ SetLocals(i, SwcNameLike(inflight[i].input[1], Locals(i)))
  /\ Goto(i, "swcMinEmployees")
  /\ UNCHANGED <<fn, args, ret, db, queries>>

SwcStepMinEmployees(i) ==
  /\ At(i, "swcMinEmployees")
  /\ SetLocals(i, SwcMinEmployees(inflight[i].input[1], Locals(i)))
  /\ Goto(i, "swcMaxEmployees")
  /\ UNCHANGED <<fn, args, ret, db, queries>>

SwcStepMaxEmployees(i) ==
  /\ At(i, "swcMaxEmployees")
  /\ SetLocals(i, SwcMaxEmployees(inflight[i].input[1], Locals(i)))
  /\ Goto(i, "return")
  /\ UNCHANGED <<fn, args, ret, db, queries>>

\* sqlWhereClauseForGetJobs, statement by statement.
SwjEnter(i) ==
  \E filters \in ConcJobFilters :
    /\ At(i, "idle")
    /\ inflight' =
         [inflight EXCEPT
            ![i] = Entered("sqlWhereClauseForGetJobs", <<filters>>,
                           "swjTitle")]
    /\ SetLocalsOf(i, "sqlWhereClauseForGetJobs", SwcLocals)
    /\ UNCHANGED <<fn, args, ret, db, queries>>

SwjStepTitle(i) ==
  /\ At(i, "swjTitle")
  /\ SetLocals(i, SwjTitle(inflight[i].input[1], Locals(i)))
  /\ Goto(i, "swjMinSalary")
  /\ UNCHANGED <<fn, args, ret, db, queries>>

SwjStepMinSalary(i) ==
  /\ At(i, "swjMinSalary")
  /\ SetLocals(i, SwjMinSalary(inflight[i].input[1], Locals(i)))
  /\ Goto(i, "swjHasEquity")
  /\ UNCHANGED <<fn, args, ret, db, queries>>

SwjStepHasEquity(i) ==
  /\ At(i, "swjHasEquity")
  /\ SetLocals(i, SwjHasEquity(inflight[i].input[1], Locals(i)))
  /\ Goto(i, "return")
  /\ UNCHANGED <<fn, args, ret, db, queries>>

\* return { whereClause, values } of either filter builder.
WhereDone(i) ==
  /\ At(i, "return")
  /\ Finish(i, Return(SwcReturn(Locals(i))))
  /\ UNCHANGED <<fn, args, ret, db, queries>>

\* The request has used the result; its next call starts afresh.
Forget(i) ==
  /\ At(i, "done")
  /\ inflight' = [inflight EXCEPT ![i] = NotCalled]
  /\ UNCHANGED <<fn, args, ret, db, queries, frames>>

NextConc ==
  \E i \in Invocations :
    \/ SfpEnter(i)
    \/ SfpCheck(i)
    \/ SfpMap(i)
    \/ SfpDone(i)
    \/ SwcEnter(i)
    \/ SwcCheck(i)
    \/ SwcStepNameLike(i)
    \/ SwcStepMinEmployees(i)
    \/ SwcStepMaxEmployees(i)
    \/ SwjEnter(i)
    \/ SwjStepTitle(i)
    \/ SwjStepMinSalary(i)
    \/ SwjStepHasEquity(i)
    \/ WhereDone(i)
    \/ Forget(i)

SpecConc == Init /\ [][NextConc]_vars

\* ------------------------------------------------- middleware called alone

\* Longest text of a query or path parameter taken from every text over an
\* alphabet; the longer texts are the listed ones.
MaxText == 2

Texts(alphabet, n) == UNION {[1..k -> alphabet] : k \in 0..n}

NumberChars == {"0", "1", "5", "a", "-", "+", ".", "e", "x", " "}

S_maxInteger == Digits(MaxInteger)

S_pastMaxInteger ==
  <<"2", "1", "4", "7", "4", "8", "3", "6", "4", "8">>

NumberTexts ==
  Texts(NumberChars, MaxText)
    \cup {S_maxInteger, S_pastMaxInteger, <<"1", ".", "5">>,
          <<"1", "0", "0">>, <<"1", "a", "b", "c">>, <<"1", "e", "3">>,
          <<"0", "x", "1", "0">>, <<"1", ".", "0">>,
          <<"I", "n", "f", "i", "n", "i", "t", "y">>}

TextChars == {"a", "c", "+", "%", "2", "0", "B"}

DecodableTexts ==
  Texts(TextChars, MaxText)
    \cup {<<"%", "2", "0">>, <<"%", "2", "B">>, <<"%", "2", "b">>,
          <<"a", "+", "%", "2", "B">>,
          <<"%", "C", "3", "%", "A", "9">>,
          <<"%", "E", "0", "%", "A", "4", "%", "A">>,
          <<"%", "E", "9">>, <<"%", "C", "0", "%", "8", "0">>,
          <<"%", "8", "0">>, <<"%", "F", "F">>,
          <<"%", "E", "D", "%", "A", "0", "%", "8", "0">>,
          <<"%", "E", "2", "%", "8", "2", "%", "A", "C">>,
          <<"%", "G", "0">>, <<"%", "2">>}

BooleanTexts ==
  {T_true, T_false, <<"T", "R", "U", "E">>, <<"F", "a", "l", "s", "e">>,
   <<"t", "R", "u", "E">>, <<"a">>, <<"t">>, <<"1">>, <<"f">>, <<"0">>, <<>>,
   <<"t", "r", "u", "e", " ">>, <<"y", "e", "s">>}

\* A parameter given once is a string, one given twice an array of strings.
Given(texts) == {Str(s) : s \in texts}

Repeated == {Arr(<<Str(<<"1">>), Str(<<"2">>)>>), Arr(<<Str(T_true), Str(T_true)>>)}

Request(params, query, headers) ==
  [params |-> params, query |-> query, headers |-> headers]

Response(locals) == [locals |-> locals]

\* GET /jobs?title=..&minSalary=..&hasEquity=.. : one parameter taken from
\* all its texts, the others from a few.
JobQueries ==
  {Entry(K_title, t) \o Entry(K_minSalary, m) \o Entry(K_hasEquity, h) :
     t \in {Absent} \cup Given(DecodableTexts) \cup Repeated,
     m \in {Absent, Str(<<"1">>)}, h \in {Absent, Str(T_true)}}
  \cup
  {Entry(K_title, t) \o Entry(K_minSalary, m) \o Entry(K_hasEquity, h) :
     t \in {Absent, Str(S_net)},
     m \in {Absent} \cup Given(NumberTexts) \cup Repeated,
     h \in {Absent, Str(T_false)}}
  \cup
  {Entry(K_hasEquity, h) \o Entry(K_title, t) \o Entry(K_minSalary, m) :
     t \in {Absent, Str(S_net), Str(<<"%">>)}, m \in {Absent, Str(<<"a">>)},
     h \in {Absent} \cup Given(BooleanTexts) \cup Repeated}

\* GET /companies?nameLike=..&minEmployees=..&maxEmployees=..
CompanyQueries ==
  {Entry(K_nameLike, t) \o Entry(K_minEmployees, lo) \o Entry(K_maxEmployees, hi) :
     t \in {Absent} \cup Given(DecodableTexts) \cup Repeated,
     lo \in {Absent, Str(<<"0">>), Str(<<"a">>)}, hi \in {Absent, Str(<<"1">>)}}
  \cup
  {Entry(K_minEmployees, lo) \o Entry(K_maxEmployees, hi) \o Entry(K_nameLike, t) :
     t \in {Absent, Str(S_net), Str(<<"%">>)},
     lo \in {Absent} \cup Given(NumberTexts) \cup Repeated,
     hi \in {Absent, Str(<<"1">>)}}
  \cup
  {Entry(K_maxEmployees, hi) \o Entry(K_handle, h) :
     hi \in Given(NumberTexts) \cup Repeated, h \in {Absent, Str(S_abc)}}

\* /jobs/:id
JobIdTexts == NumberTexts

\* The Authorization header.
AuthorizationTexts ==
  {<<"B">> \o T_earer \o u1Token, <<"b">> \o T_earer \o u2Token,
   u1Token, <<" ">> \o u2Token \o <<" ">>,
   <<"B">> \o T_earer \o <<"t", "3">>, <<"B">> \o T_earer,
   <<"B", "E", "A", "R", "E", "R", " ">> \o u1Token, <<>>}

\* res.locals.user, as authenticateJWT leaves it.
LocalsUsers ==
  {Absent} \cup {Payload(u, a) : u \in {U1, U2}, a \in BOOLEAN}

Call_convertJobId ==
  \E id \in JobIdTexts :
    /\ Idle
    /\ fn' = "convertJobId"
    /\ args' = <<Request(<< <<K_id, Str(id)>> >>, <<>>, <<>>), Response(<<>>)>>
    /\ ret' = convertJobId(args'[1], args'[2])
    /\ UNCHANGED <<db, queries, inflight, frames>>

Call_convertGetAllJobsQueryParameters ==
  \E query \in JobQueries :
    /\ Idle
    /\ fn' = "convertGetAllJobsQueryParameters"
    /\ args' = <<Request(<<>>, query, <<>>), Response(<<>>)>>
    /\ ret' = convertGetAllJobsQueryParameters(args'[1], args'[2])
    /\ UNCHANGED <<db, queries, inflight, frames>>

Call_convertGetAllCompaniesQueryParameters ==
  \E query \in CompanyQueries :
    /\ Idle
    /\ fn' = "convertGetAllCompaniesQueryParameters"
    /\ args' = <<Request(<<>>, query, <<>>), Response(<<>>)>>
    /\ ret' = convertGetAllCompaniesQueryParameters(args'[1], args'[2])
    /\ UNCHANGED <<db, queries, inflight, frames>>

Call_authenticateJWT ==
  \E authorization \in {Absent} \cup Given(AuthorizationTexts) :
    /\ Idle
    /\ fn' = "authenticateJWT"
    /\ args' = <<Request(<<>>, <<>>, Entry(K_authorization, authorization)),
                 Response(<<>>)>>
    /\ ret' = authenticateJWT(args'[1], args'[2])
    /\ UNCHANGED <<db, queries, inflight, frames>>

Call_ensureLoggedIn ==
  \E user \in LocalsUsers :
    /\ Idle
    /\ fn' = "ensureLoggedIn"
    /\ args' = <<Request(<<>>, <<>>, <<>>), Response(Entry(K_user, user))>>
    /\ ret' = ensureLoggedIn(args'[1], args'[2])
    /\ UNCHANGED <<db, queries, inflight, frames>>

Call_ensureAdmin ==
  \E user \in LocalsUsers :
    /\ Idle
    /\ fn' = "ensureAdmin"
    /\ args' = <<Request(<<>>, <<>>, <<>>), Response(Entry(K_user, user))>>
    /\ ret' = ensureAdmin(args'[1], args'[2])
    /\ UNCHANGED <<db, queries, inflight, frames>>

Call_ensureAdminOrSelf ==
  \E user \in LocalsUsers, username \in {U1, U2, U3} :
    /\ Idle
    /\ fn' = "ensureAdminOrSelf"
    /\ args' = <<Request(<< <<K_username, Str(username)>> >>, <<>>, <<>>),
                 Response(Entry(K_user, user))>>
    /\ ret' = ensureAdminOrSelf(args'[1], args'[2])
    /\ UNCHANGED <<db, queries, inflight, frames>>

NextMiddleware ==
  \/ Call_convertJobId
  \/ Call_convertGetAllJobsQueryParameters
  \/ Call_convertGetAllCompaniesQueryParameters
  \/ Call_authenticateJWT
  \/ Call_ensureLoggedIn
  \/ Call_ensureAdmin
  \/ Call_ensureAdminOrSelf
  \/ TakeResult

SpecMiddleware == Init /\ [][NextMiddleware]_vars

\* --------------------------------------- the models' other operations

\* What an operation of a model hands back: what it returned or threw, the
\* store after it and the statements it had the database execute.
Outcome(result, store, n) == [ret |-> result, db |-> store, queries |-> n]

RECURSIVE Ascending(_)
\* The numbers of a set, the least first.
Ascending(S) ==
  IF S = {} THEN <<>>
  ELSE <<CHOOSE x \in S : \A y \in S : x <= y>>
         \o Ascending(S \ {CHOOSE x \in S : \A y \in S : x <= y})

CharCode(c) == CHOOSE i \in 1..Len(AsciiChars) : AsciiChars[i] = c

RECURSIVE TextLessEq(_, _)
\* ORDER BY on a text column.
TextLessEq(a, b) ==
  IF a = <<>> THEN TRUE
  ELSE IF b = <<>> THEN FALSE
  ELSE IF a[1] # b[1] THEN CharCode(a[1]) < CharCode(b[1])
  ELSE TextLessEq(Tail(a), Tail(b))

RECURSIVE TextAscending(_)
TextAscending(S) ==
  IF S = {} THEN <<>>
  ELSE <<CHOOSE x \in S : \A y \in S : TextLessEq(x, y)>>
         \o TextAscending(S \ {CHOOSE x \in S : \A y \in S : TextLessEq(x, y)})

\* node-postgres sends undefined as NULL.
PgParam(v) == IF v = Undefined THEN Null ELSE v

\* column = $n : a comparison with NULL is not true.
SqlEquals(column, param) == column # Null /\ param # Null /\ column = param

\* A value the integer column id compares with; any other number makes the
\* statement fail (invalid input syntax for type integer).
IsJobId(id) == id.t = "number" /\ "n" \in DOMAIN id

\* A row of jobs as a SELECT or RETURNING list gives it, its equity
\* converted.
JobRow(jobs, id) == JobConverted(JobReturning(id, jobs[id]))

\* `[title, salary, equity, companyHandle]`
JobCreateParams(data) ==
  <<PgParam(Get(data, K_title)), PgParam(Get(data, K_salary)),
    PgParam(Get(data, K_equity)), PgParam(Get(data, K_companyHandle))>>

\* WHERE title=$1 AND salary=$2 AND equity=$3 AND company_handle=$4
JobDuplicates(jobs, params) ==
  {id \in DOMAIN jobs :
     /\ SqlEquals(jobs[id][C_title], params[1])
     /\ SqlEquals(jobs[id][C_salary], params[2])
     /\ SqlEquals(jobs[id][C_equity], params[3])
     /\ SqlEquals(jobs[id][C_company_handle], params[4])}

\* INSERT INTO jobs (title, salary, equity, company_handle)
JobInserted(store, params) ==
  [store EXCEPT
     !.jobs_id_seq = @ + 1,
     !.jobs = [id \in DOMAIN @ \cup {store.jobs_id_seq + 1} |->
                 IF id = store.jobs_id_seq + 1
                 THEN [c \in JobColumns |->
                         CASE c = C_title -> params[1]
                           [] c = C_salary -> params[2]
                           [] c = C_equity -> params[3]
                           [] c = C_company_handle -> params[4]]
                 ELSE @[id]]]

T_noJob == "Cannot read properties of undefined"

\* The insert: the sequence gives its next id before the row is checked.
\* A company that is not stored fails the foreign key (23503); the catch
\* drops any other error and `job.equity` then reads undefined.
JobCreateInsert(store, params) ==
  IF params[4] = Null \/ params[4].t # "string"
  THEN Outcome(Throw("TypeError", T_noJob),
               [store EXCEPT !.jobs_id_seq = @ + 1], 2)
  ELSE IF params[4].s \notin store.companies
  THEN Outcome(Throw("NotFoundError", "Company not found"),
               [store EXCEPT !.jobs_id_seq = @ + 1], 2)
  ELSE Outcome(Return(JobRow(JobInserted(store, params).jobs,
                             store.jobs_id_seq + 1)),
               JobInserted(store, params), 2)

\* Job.create({ title, salary, equity, companyHandle })
Job_create(store, data) ==
  IF JobDuplicates(store.jobs, JobCreateParams(data)) # {}
  THEN Outcome(Throw("BadRequestError", "Duplicate job"), store, 1)
  ELSE JobCreateInsert(store, JobCreateParams(data))

\* Job.findAll(): the function has no parameter and its SELECT no WHERE
\* clause; what a caller passes is not read.
Job_findAll(store, filters) ==
  Outcome(Return(Arr([i \in 1..Len(Ascending(DOMAIN store.jobs)) |->
                        JobRow(store.jobs, Ascending(DOMAIN store.jobs)[i])])),
          store, 1)

\* Job.get(id)
Job_get(store, id) ==
  IF ~IsJobId(id)
  THEN Outcome(Throw("DatabaseError", "22P02"), store, 1)
  ELSE IF id.n \notin DOMAIN store.jobs
  THEN Outcome(Throw("NotFoundError", "No job"), store, 1)
  ELSE Outcome(Return(JobRow(store.jobs, id.n)), store, 1)

\* Rows of other tables that name the job.
JobReferenced(store, id) ==
  \/ \E a \in store.applications : a[2] = id
  \/ \E jt \in store.jobs_technologies : jt[1] = id

\* A DELETE that leaves the job's row.
WithoutJobsRows(store, id) ==
  [store EXCEPT
     !.applications = {a \in @ : a[2] # id},
     !.jobs_technologies = {jt \in @ : jt[1] # id}]

\* DELETE FROM jobs WHERE id = $1, the rows that name the job going with it.
WithoutJob(store, id) ==
  [store EXCEPT
     !.jobs = [j \in DOMAIN @ \ {id} |-> @[j]],
     !.applications = {a \in @ : a[2] # id},
     !.jobs_technologies = {jt \in @ : jt[1] # id}]

\* Job.remove without the check of rowCount.
Job_removeUnchecked(store, id, cascades) ==
  IF ~IsJobId(id)
  THEN Outcome(Throw("DatabaseError", "22P02"), store, 1)
  ELSE IF id.n \notin DOMAIN store.jobs
  THEN Outcome(Return(Undefined), store, 1)
  ELSE IF JobReferenced(store, id.n) /\ ~cascades
  THEN Outcome(Throw("DatabaseError", "23503"), store, 1)
  ELSE Outcome(Return(Undefined), WithoutJob(store, id.n), 1)

\* Job.remove(id). The tables' definitions decide whether the rows naming a
\* job are deleted with it (cascades) or make the DELETE fail (23503).
Job_remove(store, id, cascades) ==
  IF ~IsJobId(id)
  THEN Outcome(Throw("DatabaseError", "22P02"), store, 1)
  ELSE IF id.n \notin DOMAIN store.jobs
  THEN Outcome(Throw("NotFoundError", "No job"), store, 1)
  ELSE IF JobReferenced(store, id.n) /\ ~cascades
  THEN Outcome(Throw("DatabaseError", "23503"), store, 1)
  ELSE Outcome(Return(Undefined), WithoutJob(store, id.n), 1)

\* Job.update(id, data) on the store.
JobUpdated(store, out) ==
  Outcome(out.ret, [store EXCEPT !.jobs = out.rows], out.queries)

\* A username the text column compares with.
IsUsername(username) == username.t = "string"

\* VALUES ($1, $2, $3, $4, $5, $6)
UserInserted(store, data) ==
  [store EXCEPT
     !.users = [u \in DOMAIN @ \cup {Get(data, K_username).s} |->
                  IF u = Get(data, K_username).s
                  THEN [c \in UserColumns |->
                          CASE c = C_password ->
                                 Str(BcryptHash(Get(data, K_password).s))
                            [] c = C_first_name -> PgParam(Get(data, K_firstName))
                            [] c = C_last_name -> PgParam(Get(data, K_lastName))
                            [] c = C_email -> PgParam(Get(data, K_email))
                            [] c = C_is_admin -> PgParam(Get(data, K_isAdmin))]
                  ELSE @[u]]]

\* User.register({ username, password, firstName, lastName, email, isAdmin })
\* bcrypt.hash throws for a password that is no text, and the insert fails
\* for a user without a username.
User_register(store, data) ==
  IF /\ IsUsername(Get(data, K_username))
     /\ Get(data, K_username).s \in DOMAIN store.users
  THEN Outcome(Throw("BadRequestError", "Duplicate username"), store, 1)
  ELSE IF Get(data, K_password).t # "string"
  THEN Outcome(Throw("Error", "data and salt arguments required"), store, 1)
  ELSE IF ~IsUsername(Get(data, K_username))
  THEN Outcome(Throw("DatabaseError", "23502"), store, 2)
  ELSE Outcome(Return(UserReturning(Get(data, K_username).s,
                        UserInserted(store, data).users[Get(data, K_username).s])),
               UserInserted(store, data), 2)

\* bcrypt.compare(password, hash): whether the hash is one of the password.
BcryptCompare(password, hash) == hash = BcryptHash(password)

\* SELECT username, password, first_name AS "firstName", ... FROM users
\* WHERE username = $1
UserSelected(store, username) ==
  Append(UserReturning(username, store.users[username]),
         <<K_password, store.users[username][C_password]>>)

\* User.authenticate(username, password): bcrypt.compare throws when the
\* password or the stored hash is no text.
User_authenticate(store, username, password) ==
  IF ~IsUsername(username) \/ username.s \notin DOMAIN store.users
  THEN Outcome(Throw("UnauthorizedError", "Invalid username/password"),
               store, 1)
  ELSE IF \/ password.t # "string"
          \/ store.users[username.s][C_password].t # "string"
  THEN Outcome(Throw("Error", "data and hash arguments required"), store, 1)
  ELSE IF BcryptCompare(password.s, store.users[username.s][C_password].s)
  THEN Outcome(Return(Delete(UserSelected(store, username.s), K_password)),
               store, 1)
  ELSE Outcome(Throw("UnauthorizedError", "Invalid username/password"),
               store, 1)

\* User.findAll(): ORDER BY username
User_findAll(store) ==
  Outcome(Return(Arr([i \in 1..Len(TextAscending(DOMAIN store.users)) |->
                        UserReturning(TextAscending(DOMAIN store.users)[i],
                          store.users[TextAscending(DOMAIN store.users)[i]])])),
          store, 1)

K_jobs == <<"j", "o", "b", "s">>

\* json_agg(a.job_id) of the user's applications, '[]' when there is none.
UserJobs(store, username) ==
  Arr([i \in 1..Len(Ascending({a[2] : a \in {b \in store.applications :
                                              b[1] = username}})) |->
         Num(Ascending({a[2] : a \in {b \in store.applications :
                                        b[1] = username}})[i])])

\* User.get(username)
User_get(store, username) ==
  IF ~IsUsername(username) \/ username.s \notin DOMAIN store.users
  THEN Outcome(Throw("NotFoundError", "No user"), store, 1)
  ELSE Outcome(Return(Append(UserReturning(username.s,
                                           store.users[username.s]),
                             <<K_jobs, UserJobs(store, username.s)>>)),
               store, 1)

\* User.update(username, data) on the store.
UserUpdated(store, out) ==
  Outcome(out.ret, [store EXCEPT !.users = out.rows], out.queries)

\* Rows of other tables that name the user.
UserReferenced(store, username) ==
  \/ \E a \in store.applications : a[1] = username
  \/ \E ut \in store.users_technologies : ut[1] = username

WithoutUser(store, username) ==
  [store EXCEPT
     !.users = [u \in DOMAIN @ \ {username} |-> @[u]],
     !.applications = {a \in @ : a[1] # username},
     !.users_technologies = {ut \in @ : ut[1] # username}]

\* User.remove(username)
User_remove(store, username, cascades) ==
  IF ~IsUsername(username) \/ username.s \notin DOMAIN store.users
  THEN Outcome(Throw("NotFoundError", "No user"), store, 1)
  ELSE IF UserReferenced(store, username.s) /\ ~cascades
  THEN Outcome(Throw("DatabaseError", "23503"), store, 1)
  ELSE Outcome(Return(Undefined), WithoutUser(store, username.s), 1)

K_jobId == <<"j", "o", "b", "I", "d">>

K_status == <<"s", "t", "a", "t", "u", "s">>

T_applied == <<"a", "p", "p", "l", "i", "e", "d">>

\* RETURNING username, job_id AS "jobId", status
ApplicationReturning(username, jobId) ==
  << <<K_username, username>>, <<K_jobId, jobId>>,
     <<K_status, Str(T_applied)>> >>

\* User.applyJob(username, jobId): a user or a job that is not stored fails
\* a foreign key (23503); every other error becomes a ServerError. The
\* table's definition decides whether the same application can be stored
\* twice (unique).
User_applyJob(store, username, jobId, unique) ==
  IF ~IsUsername(username) \/ ~IsJobId(jobId)
  THEN Outcome(Throw("ServerError", ""), store, 1)
  ELSE IF username.s \notin DOMAIN store.users
            \/ jobId.n \notin DOMAIN store.jobs
  THEN Outcome(Throw("NotFoundError", "No user or no job"), store, 1)
  ELSE IF <<username.s, jobId.n>> \in store.applications /\ unique
  THEN Outcome(Throw("ServerError", ""), store, 1)
  ELSE Outcome(Return(ApplicationReturning(username, jobId)),
               [store EXCEPT !.applications = @ \cup {<<username.s, jobId.n>>}],
               1)

K_technologies ==
  <<"t", "e", "c", "h", "n", "o", "l", "o", "g", "i", "e", "s">>

JobsTechnologies(store, username, id) ==
  {t \in DOMAIN store.technologies : <<id, t>> \in store.jobs_technologies}

\* The technologies a user and a job have in common.
SharedTechnologies(store, username, id) ==
  {t \in DOMAIN store.technologies :
     /\ <<username, t>> \in store.users_technologies
     /\ <<id, t>> \in store.jobs_technologies}

\* The joins of matchJobs, grouped by job: the jobs that share a technology
\* with the user.
MatchedJobs(store, username) ==
  Ascending({id \in DOMAIN store.jobs :
               SharedTechnologies(store, username, id) # {}})

\* json_agg(t.name) AS "technologies"
MatchedTechnologies(store, username, id) ==
  Arr([i \in 1..Len(Ascending(SharedTechnologies(store, username, id))) |->
         store.technologies[Ascending(SharedTechnologies(store, username, id))[i]]])

\* User.matchJobs(username)
User_matchJobs(store, username) ==
  IF ~IsUsername(username) \/ username.s \notin DOMAIN store.users
  THEN Outcome(Throw("NotFoundError", "No user"), store, 1)
  ELSE Outcome(Return(Arr([i \in 1..Len(MatchedJobs(store, username.s)) |->
                             Append(JobRow(store.jobs,
                                           MatchedJobs(store, username.s)[i]),
                                    <<K_technologies,
                                      MatchedTechnologies(store, username.s,
                                        MatchedJobs(store, username.s)[i])>>)])),
               store, 2)

\* -------------------------------------------------------------- the routes

\* The request of a route: its path parameters, query, headers and JSON body.
RouteRequest(params, query, headers, body) ==
  [params |-> params, query |-> query, headers |-> headers, body |-> body]

\* A request on its way through the middleware: the request and response as
\* they are now, and the error handed to next, if any.
Arrived(req) == [req |-> req, res |-> Response(<<>>), error |-> NoError]

Passed(out) == [req |-> out.req, res |-> out.res, error |-> out.next[1]]

\* Express runs the middleware of a route in the order they are listed: the
\* next one when next() was called, none any more when next(err) was.
Then(before, M(_, _)) ==
  IF before.error.ok THEN Passed(M(before.req, before.res)) ELSE before

\* The application runs authenticateJWT before the routers.
App(req) == Then(Arrived(req), authenticateJWT)

\* What the application has done with a request: the error handed to the
\* error handler or the status and body sent, the operations of the models
\* the handler called, the store after them and the last one's statements.
Rejected(err, store) ==
  [ret |-> [ok |-> FALSE, error |-> err.error, message |-> err.message,
            called |-> <<>>],
   db |-> store, queries |-> 0]

\* `const x = await Model.op(...); return res.status(s).json(body)` inside
\* `try { } catch (err) { return next(err) }`
Handled(op, status, out, Body(_)) ==
  [ret |-> IF out.ret.ok
           THEN [ok |-> TRUE, status |-> status,
                 value |-> Obj(Body(out.ret.value)), called |-> <<op>>]
           ELSE [ok |-> FALSE, error |-> out.ret.error,
                 message |-> out.ret.message, called |-> <<op>>],
   db |-> out.db, queries |-> out.queries]

\* `if (!validator.valid) throw new BadRequestError(errs)`
Invalid == Throw("BadRequestError", "instance is not valid")

IsText(v, least, most) == v.t = "string" /\ Len(v.s) \in least..most

\* schemas/jobNew.json
JobNewValid(body) ==
  /\ HasOwn(body, K_title)
  /\ HasOwn(body, K_companyHandle)
  /\ \A i \in 1..Len(body) :
       body[i][1] \in {K_title, K_salary, K_equity, K_companyHandle}
  /\ IsText(Get(body, K_title), 1, 90)
  /\ HasOwn(body, K_salary) =>
       /\ Get(body, K_salary).t = "number"
       /\ Number_isInteger(Get(body, K_salary))
       /\ ~LessThan(Get(body, K_salary), 0)
  /\ HasOwn(body, K_equity) =>
       /\ Get(body, K_equity).t = "number"
       /\ ~GreaterThan(Get(body, K_equity), 1)
  /\ IsText(Get(body, K_companyHandle), 1, 30)

K_job == <<"j", "o", "b">>

K_deleted == <<"d", "e", "l", "e", "t", "e", "d">>

K_token == <<"t", "o", "k", "e", "n">>

K_users == <<"u", "s", "e", "r", "s">>

K_applied == <<"a", "p", "p", "l", "i", "e", "d">>

\* createToken(user): the token signed for the user.
createToken(user) ==
  CASE Get(user, K_username) = Str(U1) -> u1Token
    [] Get(user, K_username) = Str(U2) -> u2Token
    [] OTHER -> u3Token

\* passwordGen.generate({ numbers: true, symbols: true })
GeneratedPassword == <<"p", "#", "1">>

\* router.post('/', ensureLoggedIn, ensureAdmin, ...) of the jobs router
PostJob(passed, store) ==
  IF ~passed.error.ok THEN Rejected(passed.error, store)
  ELSE IF ~JobNewValid(passed.req.body) THEN Rejected(Invalid, store)
  ELSE Handled("Job.create", 201, Job_create(store, passed.req.body),
               LAMBDA job : << <<K_job, job>> >>)

PostJobRoute(req, store) ==
  PostJob(Then(Then(App(req), ensureLoggedIn), ensureAdmin), store)

\* router.get('/', convertGetAllJobsQueryParameters, ...)
GetJobs(passed, store) ==
  IF ~passed.error.ok THEN Rejected(passed.error, store)
  ELSE Handled("Job.findAll", 200, Job_findAll(store, passed.req.query),
               LAMBDA jobs : << <<K_jobs, jobs>> >>)

GetJobsRoute(req, store) ==
  GetJobs(Then(App(req), convertGetAllJobsQueryParameters), store)

\* router.get('/:id', convertJobId, ...)
GetJob(passed, store) ==
  IF ~passed.error.ok THEN Rejected(passed.error, store)
  ELSE Handled("Job.get", 200, Job_get(store, Get(passed.req.params, K_id)),
               LAMBDA job : << <<K_job, job>> >>)

GetJobRoute(req, store) == GetJob(Then(App(req), convertJobId), store)

\* router.patch('/:id', convertJobId, ensureLoggedIn, ensureAdmin, ...) ;
\* valid is the verdict of schemas/jobUpdate.json.
PatchJob(passed, store, valid) ==
  IF ~passed.error.ok THEN Rejected(passed.error, store)
  ELSE IF ~valid THEN Rejected(Invalid, store)
  ELSE Handled("Job.update", 200,
               JobUpdated(store,
                 Job_update(store.jobs, Get(passed.req.params, K_id),
                            passed.req.body)),
               LAMBDA job : << <<K_job, job>> >>)

PatchJobRoute(req, store, valid) ==
  PatchJob(Then(Then(Then(App(req), convertJobId), ensureLoggedIn),
                ensureAdmin),
           store, valid)

\* router.delete('/:id', convertJobId, ensureLoggedIn, ensureAdmin, ...)
DeleteJob(passed, store, cascades) ==
  IF ~passed.error.ok THEN Rejected(passed.error, store)
  ELSE Handled("Job.remove", 200,
               Job_remove(store, Get(passed.req.params, K_id), cascades),
               LAMBDA none : << <<K_deleted, Get(passed.req.params, K_id)>> >>)

DeleteJobRoute(req, store, cascades) ==
  DeleteJob(Then(Then(Then(App(req), convertJobId), ensureLoggedIn),
                 ensureAdmin),
            store, cascades)

\* `req.body.password = passwordGen.generate(...)`
WithPassword(body) == Put(body, K_password, Str(GeneratedPassword))

\* router.post('/', ensureLoggedIn, ensureAdmin, ...) of the users router ;
\* valid is the verdict of schemas/userNew.json.
PostUser(passed, store, valid) ==
  IF ~passed.error.ok THEN Rejected(passed.error, store)
  ELSE IF ~valid THEN Rejected(Invalid, store)
  ELSE Handled("User.register", 201,
               User_register(store, WithPassword(passed.req.body)),
               LAMBDA user : << <<K_user, user>>,
                                <<K_token, Str(createToken(user))>> >>)

PostUserRoute(req, store, valid) ==
  PostUser(Then(Then(App(req), ensureLoggedIn), ensureAdmin), store, valid)

\* router.get('/', ensureLoggedIn, ensureAdmin, ...)
GetUsers(passed, store) ==
  IF ~passed.error.ok THEN Rejected(passed.error, store)
  ELSE Handled("User.findAll", 200, User_findAll(store),
               LAMBDA users : << <<K_users, users>> >>)

GetUsersRoute(req, store) ==
  GetUsers(Then(Then(App(req), ensureLoggedIn), ensureAdmin), store)

\* router.get('/:username', ensureLoggedIn, ensureAdminOrSelf, ...)
GetUser(passed, store) ==
  IF ~passed.error.ok THEN Rejected(passed.error, store)
  ELSE Handled("User.get", 200,
               User_get(store, Get(passed.req.params, K_username)),
               LAMBDA user : << <<K_user, user>> >>)

GetUserRoute(req, store) ==
  GetUser(Then(Then(App(req), ensureLoggedIn), ensureAdminOrSelf), store)

\* router.patch('/:username', ensureLoggedIn, ensureAdminOrSelf, ...) ;
\* valid is the verdict of schemas/userUpdate.json.
PatchUser(passed, store, valid) ==
  IF ~passed.error.ok THEN Rejected(passed.error, store)
  ELSE IF ~valid THEN Rejected(Invalid, store)
  ELSE Handled("User.update", 200,
               UserUpdated(store,
                 User_update(store.users, Get(passed.req.params, K_username),
                             passed.req.body)),
               LAMBDA user : << <<K_user, user>> >>)

PatchUserRoute(req, store, valid) ==
  PatchUser(Then(Then(App(req), ensureLoggedIn), ensureAdminOrSelf),
            store, valid)

\* router.delete('/:username', ensureLoggedIn, ensureAdminOrSelf, ...)
DeleteUser(passed, store, cascades) ==
  IF ~passed.error.ok THEN Rejected(passed.error, store)
  ELSE Handled("User.remove", 200,
               User_remove(store, Get(passed.req.params, K_username),
                           cascades),
               LAMBDA none :
                 << <<K_deleted, Get(passed.req.params, K_username)>> >>)

DeleteUserRoute(req, store, cascades) ==
  DeleteUser(Then(Then(App(req), ensureLoggedIn), ensureAdminOrSelf),
             store, cascades)

\* router.post('/:username/jobs/:id', ensureLoggedIn, ensureAdminOrSelf,
\* convertJobId, ...)
PostApplication(passed, store, unique) ==
  IF ~passed.error.ok THEN Rejected(passed.error, store)
  ELSE Handled("User.applyJob", 201,
               User_applyJob(store, Get(passed.req.params, K_username),
                             Get(passed.req.params, K_id), unique),
               LAMBDA application :
                 << <<K_applied, Get(application, K_jobId)>> >>)

PostApplicationRoute(req, store, unique) ==
  PostApplication(Then(Then(Then(App(req), ensureLoggedIn),
                            ensureAdminOrSelf),
                       convertJobId),
                  store, unique)

\* router.get('/:username/matchingJobs', ensureLoggedIn, ensureAdminOrSelf,
\* ...)
GetMatchingJobs(passed, store) ==
  IF ~passed.error.ok THEN Rejected(passed.error, store)
  ELSE Handled("User.matchJobs", 200,
               User_matchJobs(store, Get(passed.req.params, K_username)),
               LAMBDA jobs : << <<K_jobs, jobs>> >>)

GetMatchingJobsRoute(req, store) ==
  GetMatchingJobs(Then(Then(App(req), ensureLoggedIn), ensureAdminOrSelf),
                  store)

\* ------------------------------------------------- requests to the routes

\* Ids the jobs' sequence may give.
MaxJobId == 3

Bearer(token) == Str(<<"B">> \o T_earer \o token)

\* A text no key has signed.
T_forged == <<"t", "9">>

\* The Authorization header: none, the admin's token, a user's, a forged one.
RouteHeaders ==
  {Entry(K_authorization, a) :
     a \in {Absent, Bearer(u1Token), Bearer(u2Token), Bearer(T_forged)}}

\* The header of the routes that ask for no login.
PublicHeaders ==
  {Entry(K_authorization, a) : a \in {Absent}}

\* :id of a stored job, of none, and no number.
PathIds == {<<"1">>, <<"9">>, <<"a">>}

\* :username
PathUsernames == {U1, U2}

S_c1 == <<"c", "1">>

S_c9 == <<"c", "9">>

\* Bodies of POST /jobs: a new job, the stored job 1, a job of no company and
\* a job without a company.
JobNewBodies ==
  {<< <<K_title, Str(S_dollar)>>, <<K_salary, Num(2)>>, <<K_equity, Num(1)>>,
      <<K_companyHandle, Str(S_c1)>> >>,
   << <<K_title, Str(S_net)>>, <<K_salary, Num(1)>>, <<K_equity, Num(0)>>,
      <<K_companyHandle, Str(S_c1)>> >>,
   << <<K_title, Str(S_dollar)>>, <<K_companyHandle, Str(S_c9)>> >>,
   << <<K_title, Str(S_dollar)>> >>}

\* Bodies of PATCH /jobs/:id
JobUpdateBodies == {<< <<K_title, Str(S_dollar)>> >>, <<>>}

\* Bodies of POST /users: the new user u3 and the stored u1.
UserNewBodies ==
  {<< <<K_username, Str(u)>>, <<K_firstName, Str(S_net)>>,
      <<K_lastName, Str(S_abc)>>, <<K_email, Str(S_abc)>>,
      <<K_isAdmin, Bool(FALSE)>> >> : u \in {U3, U1}}

\* Bodies of PATCH /users/:username: the first name the users have, and no
\* field.
UserUpdateBodies == {<< <<K_firstName, Str(S_net)>> >>, <<>>}

S_NE == <<"N", "E">>

\* The query of GET /jobs
RouteJobQueries ==
  {Entry(K_title, t) \o Entry(K_minSalary, m) \o Entry(K_hasEquity, h) :
     t \in {Absent, Str(S_NE), Str(S_dollar), Str(<<"%">>)},
     m \in {Absent, Str(<<"2">>)},
     h \in {Absent, Str(T_true), Str(T_false)}}

\* The filters a caller of Job.findAll passes.
FindAllFilters ==
  {Entry(K_title, t) \o Entry(K_minSalary, m) \o Entry(K_hasEquity, h) :
     t \in {Undefined, Str(S_NE), Str(S_dollar)},
     m \in {Absent, Num(0), Num(2)},
     h \in {Undefined, Bool(TRUE), Bool(FALSE)}}

\* A caller is idle and the application answers its request (or the model
\* its call).
Routed(route, req, out) ==
  /\ fn' = route
  /\ args' = <<req>>
  /\ ret' = out.ret
  /\ db' = out.db
  /\ queries' = out.queries
  /\ UNCHANGED <<inflight, frames>>

Call_PostJob ==
  \E headers \in RouteHeaders, body \in JobNewBodies :
    LET req == RouteRequest(<<>>, <<>>, headers, body)
    IN /\ Idle
       /\ db.jobs_id_seq < MaxJobId
       /\ Routed("POST /jobs", req, PostJobRoute(req, db))

Call_GetJobs ==
  \E headers \in PublicHeaders, query \in RouteJobQueries :
    LET req == RouteRequest(<<>>, query, headers, <<>>)
    IN /\ Idle
       /\ Routed("GET /jobs", req, GetJobsRoute(req, db))

Call_GetJob ==
  \E headers \in PublicHeaders, id \in PathIds :
    LET req == RouteRequest(<< <<K_id, Str(id)>> >>, <<>>, headers, <<>>)
    IN /\ Idle
       /\ Routed("GET /jobs/:id", req, GetJobRoute(req, db))

Call_PatchJob ==
  \E headers \in RouteHeaders, id \in PathIds, body \in JobUpdateBodies,
     valid \in BOOLEAN :
    LET req == RouteRequest(<< <<K_id, Str(id)>> >>, <<>>, headers, body)
    IN /\ Idle
       /\ Routed("PATCH /jobs/:id", req, PatchJobRoute(req, db, valid))

Call_DeleteJob ==
  \E headers \in RouteHeaders, id \in PathIds, cascades \in BOOLEAN :
    LET req == RouteRequest(<< <<K_id, Str(id)>> >>, <<>>, headers, <<>>)
    IN /\ Idle
       /\ Routed("DELETE /jobs/:id", req, DeleteJobRoute(req, db, cascades))

Call_PostUser ==
  \E headers \in RouteHeaders, body \in UserNewBodies, valid \in BOOLEAN :
    LET req == RouteRequest(<<>>, <<>>, headers, body)
    IN /\ Idle
       /\ Routed("POST /users", req, PostUserRoute(req, db, valid))

Call_GetUsers ==
  \E headers \in RouteHeaders :
    LET req == RouteRequest(<<>>, <<>>, headers, <<>>)
    IN /\ Idle
       /\ Routed("GET /users", req, GetUsersRoute(req, db))

Call_GetUser ==
  \E headers \in RouteHeaders, username \in PathUsernames :
    LET req == RouteRequest(<< <<K_username, Str(username)>> >>, <<>>,
                            headers, <<>>)
    IN /\ Idle
       /\ Routed("GET /users/:username", req, GetUserRoute(req, db))

Call_PatchUser ==
  \E headers \in RouteHeaders, username \in PathUsernames,
     body \in UserUpdateBodies, valid \in BOOLEAN :
    LET req == RouteRequest(<< <<K_username, Str(username)>> >>, <<>>,
                            headers, body)
    IN /\ Idle
       /\ Routed("PATCH /users/:username", req, PatchUserRoute(req, db, valid))

Call_DeleteUser ==
  \E headers \in RouteHeaders, username \in PathUsernames,
     cascades \in BOOLEAN :
    LET req == RouteRequest(<< <<K_username, Str(username)>> >>, <<>>,
                            headers, <<>>)
    IN /\ Idle
       /\ Routed("DELETE /users/:username", req,
                 DeleteUserRoute(req, db, cascades))

Call_PostApplication ==
  \E headers \in RouteHeaders, username \in PathUsernames, id \in PathIds,
     unique \in BOOLEAN :
    LET req == RouteRequest(<< <<K_username, Str(username)>>,
                               <<K_id, Str(id)>> >>, <<>>, headers, <<>>)
    IN /\ Idle
       /\ Routed("POST /users/:username/jobs/:id", req,
                 PostApplicationRoute(req, db, unique))

Call_GetMatchingJobs ==
  \E headers \in RouteHeaders, username \in PathUsernames :
    LET req == RouteRequest(<< <<K_username, Str(username)>> >>, <<>>,
                            headers, <<>>)
    IN /\ Idle
       /\ Routed("GET /users/:username/matchingJobs", req,
                 GetMatchingJobsRoute(req, db))

Call_Job_findAll ==
  \E filters \in FindAllFilters :
    /\ Idle
    /\ Routed("Job.findAll", filters, Job_findAll(db, filters))

NextRoutes ==
  \/ Call_PostJob
  \/ Call_GetJobs
  \/ Call_GetJob
  \/ Call_PatchJob
  \/ Call_DeleteJob
  \/ Call_PostUser
  \/ Call_GetUsers
  \/ Call_GetUser
  \/ Call_PatchUser
  \/ Call_DeleteUser
  \/ Call_PostApplication
  \/ Call_GetMatchingJobs
  \/ Call_Job_findAll
  \/ TakeResult

SpecRoutes == Init /\ [][NextRoutes]_vars

\* ------------------------------------------------ the models called alone

\* A caller is idle and calls an operation of a model.
Called(name, arguments, out) ==
  /\ Idle
  /\ fn' = name
  /\ args' = arguments
  /\ ret' = out.ret
  /\ db' = out.db
  /\ queries' = out.queries
  /\ UNCHANGED <<inflight, frames>>

\* Data of Job.create: a new job, the stored job 1, a job without salary
\* and equity, and a job of a company that is not stored.
JobCreateData ==
  {<< <<K_title, Str(S_dollar)>>, <<K_salary, Num(2)>>, <<K_equity, Num(1)>>,
      <<K_companyHandle, Str(S_c1)>> >>,
   << <<K_title, Str(S_net)>>, <<K_salary, Num(1)>>, <<K_equity, Num(0)>>,
      <<K_companyHandle, Str(S_c1)>> >>,
   << <<K_title, Str(S_dollar)>>, <<K_companyHandle, Str(S_c1)>> >>,
   << <<K_title, Str(S_dollar)>>, <<K_salary, Num(2)>>, <<K_equity, Num(1)>>,
      <<K_companyHandle, Str(S_c9)>> >>}

Call_Job_create ==
  \E data \in JobCreateData :
    /\ db.jobs_id_seq < MaxJobId
    /\ Called("Job.create", <<data>>, Job_create(db, data))

Call_Job_get ==
  \E id \in JobIdsAsked :
    Called("Job.get", <<Num(id)>>, Job_get(db, Num(id)))

Call_Job_remove ==
  \E id \in JobIdsAsked, cascades \in BOOLEAN :
    Called("Job.remove", <<Num(id)>>, Job_remove(db, Num(id), cascades))

NextJobs ==
  \/ Call_Job_create
  \/ Call_Job_get
  \/ Call_Job_update
  \/ Call_Job_remove
  \/ TakeResult

SpecJobs == Init /\ [][NextJobs]_vars

Call_User_remove ==
  \E username \in UsernamesAsked, cascades \in BOOLEAN :
    Called("User.remove", <<Str(username)>>,
           User_remove(db, Str(username), cascades))

Call_User_applyJob ==
  \E username \in UsernamesAsked, jobId \in JobIdsAsked, unique \in BOOLEAN :
    Called("User.applyJob", <<Str(username), Num(jobId)>>,
           User_applyJob(db, Str(username), Num(jobId), unique))

\* Job.create, statement by statement: the duplicate check and the insert
\* are two awaited queries, and other calls run between them.
JcEnter(i) ==
  \E data \in JobCreateData :
    /\ At(i, "idle")
    /\ inflight' = [inflight EXCEPT ![i] = Entered("Job.create", <<data>>,
                                                   "jcCheck")]
    /\ UNCHANGED <<fn, args, ret, db, queries, frames>>

\* `if (duplicateCheck.rows[0]) throw new BadRequestError(...)`
JcCheck(i) ==
  /\ At(i, "jcCheck")
  /\ inflight' =
       IF JobDuplicates(db.jobs, JobCreateParams(inflight[i].input[1])) # {}
       THEN [inflight EXCEPT
               ![i].pc = "done",
               ![i].result = Throw("BadRequestError", "Duplicate job")]
       ELSE [inflight EXCEPT ![i].pc = "jcInsert"]
  /\ UNCHANGED <<fn, args, ret, db, queries, frames>>

\* The insert when the table may have a unique constraint over the four
\* columns: the violation (23505) is an error the catch drops.
JobCreateInsertUnder(store, params, unique) ==
  IF unique /\ JobDuplicates(store.jobs, params) # {}
  THEN Outcome(Throw("TypeError", T_noJob),
               [store EXCEPT !.jobs_id_seq = @ + 1], 1)
  ELSE JobCreateInsert(store, params)

JcInsert(i) ==
  \E unique \in BOOLEAN :
    LET out == JobCreateInsertUnder(db, JobCreateParams(inflight[i].input[1]),
                                    unique)
    IN /\ At(i, "jcInsert")
       /\ db.jobs_id_seq <= MaxJobId
       /\ inflight' = [inflight EXCEPT ![i].pc = "done",
                                       ![i].result = out.ret]
       /\ db' = out.db
       /\ UNCHANGED <<fn, args, ret, queries, frames>>

NextCreate ==
  \E i \in Invocations :
    \/ JcEnter(i)
    \/ JcCheck(i)
    \/ JcInsert(i)
    \/ Forget(i)

SpecCreate == Init /\ [][NextCreate]_vars

\* Data of User.register: the new user u3 and the stored u1, with a
\* password or the empty text for one.
UserRegisterData ==
  {<< <<K_username, Str(u)>>, <<K_password, Str(p)>>,
      <<K_firstName, Str(S_net)>>, <<K_lastName, Str(S_abc)>>,
      <<K_email, Str(S_abc)>>, <<K_isAdmin, Bool(FALSE)>> >> :
     u \in {U3, U1}, p \in {S_net, S_empty}}

\* Passwords tried: the one u1 was stored with, and the ones set later.
PasswordsTried == {<<"p", "w">> \o U1, S_net, S_empty}

Call_User_register ==
  \E data \in UserRegisterData :
    Called("User.register", <<data>>, User_register(db, data))

Call_User_authenticate ==
  \E username \in UsernamesAsked, password \in PasswordsTried :
    Called("User.authenticate", <<Str(username), Str(password)>>,
           User_authenticate(db, Str(username), Str(password)))

Call_User_matchJobs ==
  \E username \in {U1, U2, U3} :
    Called("User.matchJobs", <<Str(username)>>,
           User_matchJobs(db, Str(username)))

NextUsers ==
  \/ Call_User_register
  \/ Call_User_authenticate
  \/ Call_User_update
  \/ Call_User_remove
  \/ Call_User_matchJobs
  \/ Call_Job_remove
  \/ TakeResult

SpecUsers == Init /\ [][NextUsers]_vars

\* The operations that name a row by its id or username.
NextRows ==
  \/ Call_Job_update
  \/ Call_Job_remove
  \/ Call_User_update
  \/ Call_User_remove
  \/ Call_User_applyJob
  \/ TakeResult

SpecRows == Init /\ [][NextRows]_vars

\* ------------------------------------------------------- reading results

RECURSIVE PlaceholdersFrom(_, _)
PlaceholdersFrom(s, i) ==
  IF i > Len(s) THEN <<>>
  ELSE IF s[i] = "$" /\ i < Len(s) /\ IsDigit(s[i + 1])
  THEN <<NumberAt(s, i + 1, 0)>> \o PlaceholdersFrom(s, i + 1)
  ELSE PlaceholdersFrom(s, i + 1)

\* The numbers of the placeholders $n of a fragment, from left to right.
Placeholders(s) == PlaceholdersFrom(s, 1)

Returned == fn # "none" /\ ret.ok

Fragment ==
  IF fn = "sqlForPartialUpdate" THEN ret.value.setCols
  ELSE ret.value.whereClause

\* C1: every returned clause has exactly the placeholders $1..$n, each once
\* and in increasing order from left to right, n the number of values.
C1_ClauseResultInvariant ==
  Returned =>
    Placeholders(Fragment) = [i \in 1..Len(ret.value.values) |-> i]

\* A returned clause with three placeholders and three values.
C1_Witness ==
  /\ Returned
  /\ fn = "sqlWhereClauseForGetCompanies"
  /\ Len(ret.value.values) = 3
  /\ Placeholders(Fragment) = <<1, 2, 3>>

\* The column the specification gives a key: its translation when the key is
\* in the table, the key itself otherwise.
ColumnOf(k, jsToSql) == IF HasOwn(jsToSql, k) THEN Get(jsToSql, k).s ELSE k

\* C2: for a non-empty mapping, setCols is "<col_1>"=$1, ..., "<col_n>"=$n
\* with col_i the translation of the i-th key (or the key), and values are
\* the mapping's values in key order.
C2_SetClause ==
  (fn = "sqlForPartialUpdate" /\ Len(args[1]) > 0) =>
    LET data == args[1]
        n == Len(data)
    IN /\ ret.ok
       /\ ret.value.values = [i \in 1..n |-> data[i][2]]
       /\ ret.value.setCols =
            Join([i \in 1..n |->
                    <<"\"">> \o ColumnOf(data[i][1], args[2])
                      \o <<"\"", "=", "$">> \o Digits(i)],
                 <<",", " ">>)

\* {title: .., firstName: ..} with the users table: one key translated, one
\* passed through, in the mapping's order.
C2_Witness ==
  /\ fn = "sqlForPartialUpdate"
  /\ args[2] = UserJsToSql
  /\ ObjectKeys(args[1]) = <<K_title, K_firstName>>
  /\ ret.ok
  /\ ret.value.setCols =
       <<"\"", "t", "i", "t", "l", "e", "\"", "=", "$", "1", ",", " ",
         "\"", "f", "i", "r", "s", "t", "_", "n", "a", "m", "e", "\"", "=",
         "$", "2">>

\* The predicates the specification lists for a filter object: the texts of
\* the applicable ones in the fixed order, and the values bound to them.
Applicable(cands) == SelectSeq(cands, LAMBDA c : c.on)

\* ' WHERE ' + the predicates joined by ' AND ', the i-th numbered $i.
ExpectedClause(preds) ==
  [whereClause |->
     IF preds = <<>> THEN <<>>
     ELSE <<" ", "W", "H", "E", "R", "E", " ">>
            \o Join([i \in 1..Len(preds) |-> preds[i].text \o Digits(i)],
                    <<" ", "A", "N", "D", " ">>),
   values |-> [i \in 1..Len(preds) |-> preds[i].bound]]

CompanyPredicates(filters) ==
  Applicable(<<
    [on |-> Truthy(Get(filters, K_nameLike)),
     text |-> <<"n", "a", "m", "e", " ", "I", "L", "I", "K", "E", " ", "$">>,
     bound |-> Str(<<"%">> \o JsToString(Get(filters, K_nameLike)) \o <<"%">>)],
    [on |-> Truthy(Get(filters, K_minEmployees)),
     text |-> <<"n", "u", "m", "_", "e", "m", "p", "l", "o", "y", "e", "e",
                "s", " ", ">", "=", " ", "$">>,
     bound |-> Get(filters, K_minEmployees)],
    [on |-> Truthy(Get(filters, K_maxEmployees)),
     text |-> <<"n", "u", "m", "_", "e", "m", "p", "l", "o", "y", "e", "e",
                "s", " ", "<", "=", " ", "$">>,
     bound |-> Get(filters, K_maxEmployees)] >>)

\* C4: a companies filter object that does not trigger the range error gives
\* '' and [] when no recognized filter applies, and otherwise ' WHERE ' and
\* the applicable predicates joined by ' AND ', in the order nameLike,
\* minEmployees, maxEmployees, numbered from $1 in emission order.
C4_CompaniesWhereClause ==
  (fn = "sqlWhereClauseForGetCompanies" /\ ret.ok) =>
    ret.value = ExpectedClause(CompanyPredicates(args[1]))

\* {nameLike: 'net', minEmployees: 1, maxEmployees: 2}
C4_Witness ==
  /\ fn = "sqlWhereClauseForGetCompanies"
  /\ Get(args[1], K_nameLike) = Str(S_net)
  /\ Get(args[1], K_minEmployees) = Num(1)
  /\ Get(args[1], K_maxEmployees) = Num(2)
  /\ ret.ok
  /\ ret.value.values = <<Str(<<"%", "n", "e", "t", "%">>), Num(1), Num(2)>>
  /\ ret.value.whereClause =
       <<" ", "W", "H", "E", "R", "E", " ",
         "n", "a", "m", "e", " ", "I", "L", "I", "K", "E", " ", "$", "1",
         " ", "A", "N", "D", " ",
         "n", "u", "m", "_", "e", "m", "p", "l", "o", "y", "e", "e", "s",
         " ", ">", "=", " ", "$", "2",
         " ", "A", "N", "D", " ",
         "n", "u", "m", "_", "e", "m", "p", "l", "o", "y", "e", "e", "s",
         " ", "<", "=", " ", "$", "3">>

IsCount(v) == v.t = "number" /\ v.n >= 0

\* C5: with minEmployees and maxEmployees both present as non-negative
\* integers (0 included), the builder fails with BadRequestError when
\* minEmployees > maxEmployees and does not fail otherwise.
C5_RangeError ==
  LET lo == Get(args[1], K_minEmployees)
      hi == Get(args[1], K_maxEmployees)
  IN (fn = "sqlWhereClauseForGetCompanies" /\ IsCount(lo) /\ IsCount(hi)) =>
       IF lo.n > hi.n
       THEN ~ret.ok /\ ret.error = "BadRequestError"
       ELSE ret.ok

CompanyKeys == {K_nameLike, K_minEmployees, K_maxEmployees}

JobKeys == {K_title, K_minSalary, K_hasEquity}

Keep(obj, keys) == SelectSeq(obj, LAMBDA e : e[1] \in keys)

\* C7: keys a filter builder does not recognize never change its result:
\* the result, error included, is that of the object without them.
C7_UnknownKeysIgnored ==
  /\ fn = "sqlWhereClauseForGetCompanies" =>
       ret = sqlWhereClauseForGetCompanies(Keep(args[1], CompanyKeys))
  /\ fn = "sqlWhereClauseForGetJobs" =>
       ret = sqlWhereClauseForGetJobs(Keep(args[1], JobKeys))

\* {handle: 'abc'} alone: the empty clause, as for {}.
C7_Witness ==
  /\ fn = "sqlWhereClauseForGetCompanies"
  /\ args[1] = << <<K_handle, Str(S_abc)>> >>
  /\ ret = Return([whereClause |-> <<>>, values |-> <<>>])

\* The recognized filters that apply: the truthy ones, and hasEquity when true.
AppliedCompanyKeys(filters) == {k \in CompanyKeys : Truthy(Get(filters, k))}

AppliedJobKeys(filters) ==
  {k \in {K_title, K_minSalary} : Truthy(Get(filters, k))}
    \cup {k \in {K_hasEquity} : Get(filters, k) = Bool(TRUE)}

\* C8: the fragment does not depend on the values: the same keys with other
\* values (sqlForPartialUpdate, same table), or another filter object with
\* the same applicable filters, give the same fragment.
C8_ValuesNeverInFragment ==
  /\ (fn = "sqlForPartialUpdate" /\ ret.ok) =>
       \A vs \in [1..Len(args[1]) -> UpdateValues] :
         LET other == [i \in 1..Len(args[1]) |-> <<args[1][i][1], vs[i]>>]
         IN sqlForPartialUpdate(other, args[2]).value.setCols
              = ret.value.setCols
  /\ (fn = "sqlWhereClauseForGetCompanies" /\ ret.ok) =>
       \A other \in CompanyFilters :
         (/\ AppliedCompanyKeys(other) = AppliedCompanyKeys(args[1])
          /\ sqlWhereClauseForGetCompanies(other).ok) =>
           sqlWhereClauseForGetCompanies(other).value.whereClause
             = ret.value.whereClause
  /\ (fn = "sqlWhereClauseForGetJobs" /\ ret.ok) =>
       \A other \in JobFilters :
         AppliedJobKeys(other) = AppliedJobKeys(args[1]) =>
           sqlWhereClauseForGetJobs(other).value.whereClause
             = ret.value.whereClause

\* {nameLike: '$9'}: the text is bound as '%$9%' and the fragment holds $1.
C8_Witness ==
  /\ fn = "sqlWhereClauseForGetCompanies"
  /\ Get(args[1], K_nameLike) = Str(S_dollar)
  /\ ret.ok
  /\ ret.value.values = <<Str(<<"%", "$", "9", "%">>)>>
  /\ ret.value.whereClause =
       <<" ", "W", "H", "E", "R", "E", " ",
         "n", "a", "m", "e", " ", "I", "L", "I", "K", "E", " ", "$", "1">>

JobPredicates(filters) ==
  Applicable(<<
    [on |-> Truthy(Get(filters, K_title)),
     text |-> <<"t", "i", "t", "l", "e", " ", "I", "L", "I", "K", "E", " ",
                "$">>,
     bound |-> Str(<<"%">> \o JsToString(Get(filters, K_title)) \o <<"%">>)],
    [on |-> Truthy(Get(filters, K_minSalary)),
     text |-> <<"s", "a", "l", "a", "r", "y", " ", ">", "=", " ", "$">>,
     bound |-> Get(filters, K_minSalary)],
    [on |-> Get(filters, K_hasEquity) = Bool(TRUE),
     text |-> <<"e", "q", "u", "i", "t", "y", " ", "<", ">", " ", "$">>,
     bound |-> Num(0)] >>)

\* C9: the jobs builder emits title ILIKE, salary >= and equity <> in that
\* order, numbered from $1; equity <> $i, bound to 0, only when hasEquity is
\* true; '' when nothing is emitted.
C9_JobsWhereClause ==
  fn = "sqlWhereClauseForGetJobs" =>
    ret = Return(ExpectedClause(JobPredicates(args[1])))

\* {title: 'net', minSalary: 1, hasEquity: false}: two predicates, no equity.
C9_Witness ==
  /\ fn = "sqlWhereClauseForGetJobs"
  /\ Get(args[1], K_title) = Str(S_net)
  /\ Get(args[1], K_minSalary) = Num(1)
  /\ Get(args[1], K_hasEquity) = Bool(FALSE)
  /\ ret.ok
  /\ ret.value.values = <<Str(<<"%", "n", "e", "t", "%">>), Num(1)>>
  /\ ret.value.whereClause =
       <<" ", "W", "H", "E", "R", "E", " ",
         "t", "i", "t", "l", "e", " ", "I", "L", "I", "K", "E", " ", "$", "1",
         " ", "A", "N", "D", " ",
         "s", "a", "l", "a", "r", "y", " ", ">", "=", " ", "$", "2">>

\* C3: sqlForPartialUpdate fails with BadRequestError on a mapping without
\* keys, whatever the table; a step that calls Job.update or User.update
\* with empty data fails with BadRequestError, has executed no statement
\* and leaves the store as it was.
C3_EmptyUpdateRejected ==
  [][/\ \A jsToSql \in TranslationTables :
          /\ ~sqlForPartialUpdate(<<>>, jsToSql).ok
          /\ sqlForPartialUpdate(<<>>, jsToSql).error = "BadRequestError"
     /\ (fn' \in {"Job.update", "User.update"} /\ args'[2] = <<>>) =>
          /\ ~ret'.ok
          /\ ret'.error = "BadRequestError"
          /\ queries' = 0
          /\ db' = db]_vars

\* Job.update(1, {}) after some update has changed the store.
C3_Witness ==
  /\ fn = "Job.update"
  /\ args = <<Num(1), <<>>>>
  /\ ~ret.ok
  /\ db # InitialDb

\* What a builder returns for an input when it runs alone.
Alone(name, input) ==
  CASE name = "sqlForPartialUpdate" -> sqlForPartialUpdate(input[1], input[2])
    [] name = "sqlWhereClauseForGetCompanies" ->
         sqlWhereClauseForGetCompanies(input[1])
    [] name = "sqlWhereClauseForGetJobs" -> sqlWhereClauseForGetJobs(input[1])

\* C10: whatever the other invocations in flight do, an invocation that has
\* finished has the result the builder gives its input when run alone, and
\* its input object is as it was passed; so two invocations with the same
\* input have the same result.
C10_InvocationsIndependent ==
  \A i \in Invocations :
    At(i, "done") =>
      /\ inflight[i].result = Alone(inflight[i].fn, inflight[i].passed)
      /\ inflight[i].input = inflight[i].passed
      /\ \A j \in Invocations :
           (/\ At(j, "done")
            /\ inflight[j].fn = inflight[i].fn
            /\ inflight[j].passed = inflight[i].passed) =>
             inflight[j].result = inflight[i].result

\* Two invocations of the companies builder on different filters, both
\* finished after running interleaved.
C10_Witness ==
  /\ At(1, "done")
  /\ At(2, "done")
  /\ inflight[1].fn = "sqlWhereClauseForGetCompanies"
  /\ inflight[2].fn = "sqlWhereClauseForGetCompanies"
  /\ inflight[1].result.ok
  /\ inflight[2].result.ok
  /\ Len(inflight[1].result.value.values) = 3
  /\ Len(inflight[2].result.value.values) = 1

\* ------------------------------------------------------- middleware claims

\* next was called once, with this class of error.
NextError(cls) == Len(ret.next) = 1 /\ ret.next[1].error = cls

\* next was called once, with no argument.
NextPlain == ret.next = <<NoError>>

\* A text of decimal digits only.
IsDigits(s) == s # <<>> /\ \A i \in 1..Len(s) : IsDigit(s[i])

\* The path parameter the middleware was given.
IdGiven == Get(args[1].params, K_id)

\* C11: convertJobId passes a BadRequestError to next and leaves
\* req.params.id as it was when the numeric conversion of the id is
\* not-a-number (as it is for a text that starts with the letter a);
\* otherwise it replaces req.params.id by the number (the number a
\* text of digits writes) and calls next with no error.
C11_ConvertJobId ==
  fn = "convertJobId" =>
    /\ IF Number_isNaN(StringToNumber(IdGiven.s))
       THEN NextError("BadRequestError") /\ ret.req = args[1]
       ELSE /\ NextPlain
            /\ ret.req.params = << <<K_id, StringToNumber(IdGiven.s)>> >>
            /\ Get(ret.req.params, K_id).t = "number"
            /\ ret.req.query = args[1].query
    /\ (IdGiven.s # <<>> /\ IdGiven.s[1] = "a") => NextError("BadRequestError")
    /\ (IsDigits(IdGiven.s) /\ Len(IdGiven.s) < 10) =>
         Get(ret.req.params, K_id) = Num(NumberAt(IdGiven.s, 1, 0))
    /\ ret.res = args[2]

C11_Witness ==
  /\ fn = "convertJobId"
  /\ IdGiven = Str(<<"1", "a">>)
  /\ NextError("BadRequestError")
  /\ Get(ret.req.params, K_id) = Str(<<"1", "a">>)

\* The query the middleware was given, and a parameter of it.
QueryGiven == args[1].query

Param(k) == Get(QueryGiven, k)

\* The text has a digit: a text without one writes no number.
HasDigit(s) == \E i \in 1..Len(s) : IsDigit(s[i])

\* A text of decimal digits that writes an integer of 0 .. 2147483647.
IsIntegerText(s) ==
  IsDigits(s) /\ ~DigitsLess(Digits(MaxInteger), StripLeadingZeros(s))

IntegerOf(s) == Num(NumberAt(StripLeadingZeros(s), 1, 0))

IsIntegerInRange(v) ==
  v.t = "number" /\ DOMAIN v = {"t", "n"} /\ v.n \in 0..MaxInteger

\* C12: convertGetAllJobsQueryParameters accepts a minSalary text exactly
\* when it denotes an integer of 0 .. 2147483647: a text of digits in that
\* range is accepted and stored in req.query.minSalary as that integer ('0'
\* as 0), an accepted text denotes a number (it has a digit) and is stored as
\* an integer of the range, and every other text makes it pass a
\* BadRequestError to next.
C12_MinSalary ==
  (/\ fn = "convertGetAllJobsQueryParameters"
   /\ Param(K_minSalary).t = "string"
   /\ Param(K_title) = Undefined
   /\ Param(K_hasEquity) = Undefined) =>
    /\ NextPlain \/ NextError("BadRequestError")
    /\ IsIntegerText(Param(K_minSalary).s) =>
         /\ NextPlain
         /\ Get(ret.req.query, K_minSalary) = IntegerOf(Param(K_minSalary).s)
    /\ NextPlain =>
         /\ HasDigit(Param(K_minSalary).s)
         /\ IsIntegerInRange(Get(ret.req.query, K_minSalary))

\* The whole text is a numeral of an integer of 0 .. 2147483647.
DenotesInteger(s) == HasDigit(s) /\ IsIntegerInRange(StringToNumber(s))

\* What the claim says of one of the two employee counts, given alone or
\* with the other count.
CountNormalized(k) ==
  Param(k).t = "string" =>
    /\ IsIntegerText(Param(k).s) =>
         NextPlain /\ Get(ret.req.query, k) = IntegerOf(Param(k).s)
    /\ ~DenotesInteger(Param(k).s) => NextError("BadRequestError")

\* C13: convertGetAllCompaniesQueryParameters passes a BadRequestError to
\* next for every minEmployees or maxEmployees text that is not an integer
\* of 0 .. 2147483647, and stores the integer of every text of digits in
\* that range ('0' as 0, '2147483647' as 2147483647).
C13_EmployeeCounts ==
  (/\ fn = "convertGetAllCompaniesQueryParameters"
   /\ Param(K_nameLike) = Undefined
   /\ Param(K_minEmployees) = Undefined \/ Param(K_maxEmployees) = Undefined) =>
    /\ CountNormalized(K_minEmployees)
    /\ CountNormalized(K_maxEmployees)

\* The text is the word, in any letter case.
IsWord(v, word) ==
  /\ v.t = "string"
  /\ Len(v.s) = Len(word)
  /\ \A i \in 1..Len(word) : LowerChar(v.s[i]) = word[i]

\* C14: convertGetAllJobsQueryParameters stores true for a hasEquity that is
\* the text 'true' in any letter case and false for 'false', passes a
\* BadRequestError to next for every other value that is present, and
\* leaves req.query.hasEquity undefined (not false) when it is absent.
C14_HasEquity ==
  (/\ fn = "convertGetAllJobsQueryParameters"
   /\ Param(K_title) = Undefined
   /\ Param(K_minSalary) = Undefined) =>
    CASE Param(K_hasEquity) = Undefined ->
           NextPlain /\ Get(ret.req.query, K_hasEquity) = Undefined
      [] IsWord(Param(K_hasEquity), T_true) ->
           NextPlain /\ Get(ret.req.query, K_hasEquity) = Bool(TRUE)
      [] IsWord(Param(K_hasEquity), T_false) ->
           NextPlain /\ Get(ret.req.query, K_hasEquity) = Bool(FALSE)
      [] OTHER -> NextError("BadRequestError") /\ ret.req = args[1]

\* The text filter of the normalizer that ran, as given and as it left it.
TextKey == IF fn = "convertGetAllJobsQueryParameters" THEN K_title ELSE K_nameLike

TextGiven == Param(TextKey)

TextStored == Get(ret.req.query, TextKey)

\* A '%' that is not followed by two hexadecimal digits.
HasBadEscape(s) ==
  \E i \in 1..Len(s) :
    /\ s[i] = "%"
    /\ ~(i + 2 <= Len(s) /\ IsHexDigit(s[i + 1]) /\ IsHexDigit(s[i + 2]))

\* Escapes that are not the UTF-8 encoding of a character: a lone lead byte,
\* a lone continuation byte, 0xFF, an overlong form and a surrogate.
InvalidEncodings ==
  {<<"%", "E", "9">>, <<"%", "8", "0">>, <<"%", "F", "F">>,
   <<"%", "C", "0", "%", "8", "0">>,
   <<"%", "E", "D", "%", "A", "0", "%", "8", "0">>}

\* Texts and what they decode to.
Decodings ==
  {<<<<"%", "2", "0">>, <<" ">>>>,
   <<<<"%", "2", "B">>, <<"+">>>>,
   <<<<"a", "+", "%", "2", "B">>, <<"a", " ", "+">>>>,
   <<<<"%", "C", "3", "%", "A", "9">>, <<"U+233">>>>,
   <<<<"%", "E", "2", "%", "8", "2", "%", "A", "C">>, <<"U+8364">>>>}

\* C15: in both query normalizers a text filter is decoded by replacing
\* every '+' by a space and then percent-decoding; when decoding fails (a
\* '%' not followed by two hexadecimal digits, or escapes that are no valid
\* encoded text) next is called once, with a BadRequestError, and never
\* without an error.
C15_TextDecoded ==
  (/\ fn \in {"convertGetAllJobsQueryParameters",
               "convertGetAllCompaniesQueryParameters"}
   /\ TextGiven.t = "string") =>
    /\ (HasBadEscape(TextGiven.s) \/ TextGiven.s \in InvalidEncodings) =>
         NextError("BadRequestError")
    /\ NextPlain =>
         /\ TextStored.t = "string"
         /\ \A d \in Decodings : TextGiven.s = d[1] => TextStored.s = d[2]
         /\ (\A i \in 1..Len(TextGiven.s) : TextGiven.s[i] # "%") =>
              /\ Len(TextStored.s) = Len(TextGiven.s)
              /\ \A i \in 1..Len(TextGiven.s) :
                   TextStored.s[i] =
                     IF TextGiven.s[i] = "+" THEN " " ELSE TextGiven.s[i]

\* A title with a truncated escape ('%E0%A4%A' of the tests) is refused.
C15_Witness ==
  /\ fn = "convertGetAllJobsQueryParameters"
  /\ TextGiven = Str(<<"%", "E", "0", "%", "A", "4", "%", "A">>)
  /\ NextError("BadRequestError")

\* C16: every failure the normalizers signal is a client error: each call of
\* next carries no error or a BadRequestError, never a ServerError or another
\* error, and no failure is swallowed: after next() without an error the
\* text filter is a decoded string or undefined.
C16_OnlyClientErrors ==
  fn \in {"convertJobId", "convertGetAllJobsQueryParameters",
          "convertGetAllCompaniesQueryParameters"} =>
    /\ \A i \in 1..Len(ret.next) :
         ret.next[i].error \in {"none", "BadRequestError"}
    /\ (fn # "convertJobId" /\ NextPlain) =>
         TextStored.t \in {"string", "undefined"}

\* The Authorization header the middleware was given.
HeaderGiven == Get(args[1].headers, K_authorization)

\* The headers that carry a signed token, bare or after 'Bearer '/'bearer ',
\* and the payload of the token.
TokenHeaders ==
  {<<Str(<<"B">> \o T_earer \o u1Token), Payload(U1, TRUE)>>,
   <<Str(u1Token), Payload(U1, TRUE)>>,
   <<Str(<<"b">> \o T_earer \o u2Token), Payload(U2, FALSE)>>,
   <<Str(<<" ">> \o u2Token \o <<" ">>), Payload(U2, FALSE)>>}

\* C19: authenticateJWT never signals an error: it calls next once, with no
\* error; with a token that verifies res.locals.user is the payload of the
\* token, with no Authorization header or a token that fails verification
\* res.locals.user stays unset.
C19_AuthenticateNeverFails ==
  fn = "authenticateJWT" =>
    /\ NextPlain
    /\ ret.req = args[1]
    /\ \A h \in TokenHeaders :
         HeaderGiven = h[1] => ret.res.locals = << <<K_user, h[2]>> >>
    /\ (\A h \in TokenHeaders : HeaderGiven # h[1]) => ret.res = args[2]

\* A token that was not signed with the key.
C19_Witness ==
  /\ fn = "authenticateJWT"
  /\ HeaderGiven = Str(<<"B">> \o T_earer \o <<"t", "3">>)
  /\ NextPlain
  /\ ~HasOwn(ret.res.locals, K_user)

\* ------------------------------------------------------------ route claims

\* The request a route was called with.
RequestGiven == args[1]

\* The request carries the token in its Authorization header.
Carried(token) == Get(RequestGiven.headers, K_authorization) = Bearer(token)

\* The handler called an operation of a model.
Executed == ret.called # <<>>

\* The answer is this class of error.
Answered(cls) == ~ret.ok /\ ret.error = cls

AdminRoutes ==
  {"POST /jobs", "PATCH /jobs/:id", "DELETE /jobs/:id", "POST /users",
   "GET /users"}

UsernameRoutes ==
  {"GET /users/:username", "PATCH /users/:username",
   "DELETE /users/:username", "POST /users/:username/jobs/:id",
   "GET /users/:username/matchingJobs"}

\* The tokens of _testCommon.js: u1Token is the admin u1's, u2Token is
\* u2's, who is no admin.
CarriesAdminToken == Carried(u1Token)

CarriesOwnToken ==
  Carried(u2Token) /\ Get(RequestGiven.params, K_username) = Str(U2)

CarriesNoValidToken == ~Carried(u1Token) /\ ~Carried(u2Token)

\* C17: the model operation of POST /jobs, PATCH /jobs/:id, DELETE /jobs/:id,
\* POST /users and GET /users is executed only when the request carries a
\* valid token whose payload has isAdmin true, and the model operation of
\* every /users/:username route only when the token's user is an admin or
\* its username equals the :username path parameter.
C17_AuthorizationSafety ==
  /\ (fn \in AdminRoutes /\ Executed) => CarriesAdminToken
  /\ (fn \in UsernameRoutes /\ Executed) =>
       CarriesAdminToken \/ CarriesOwnToken

\* The user u2 updates their own record, and the admin has deleted a job.
C17_Witness ==
  /\ fn = "PATCH /users/:username"
  /\ CarriesOwnToken
  /\ ret.ok
  /\ ret.called = <<"User.update">>
  /\ 1 \notin DOMAIN db.jobs

\* C18: a request to a protected route without a valid token is answered
\* with UnauthorizedError, and one with the valid token of a user who is
\* neither admin nor, on the /users/:username routes, the named user, with
\* ForbiddenError, whatever its path id and body: no other check answers
\* first.
C18_AuthorizationFirst ==
  fn \in AdminRoutes \cup UsernameRoutes =>
    /\ CarriesNoValidToken => Answered("UnauthorizedError")
    /\ (Carried(u2Token) /\ ~CarriesOwnToken) => Answered("ForbiddenError")

RECURSIVE Contains(_, _)
\* The text has the part in it.
Contains(text, part) ==
  IF Len(text) < Len(part) THEN FALSE
  ELSE IF SubSeq(text, 1, Len(part)) = part THEN TRUE
  ELSE Contains(Tail(text), part)

\* The filters of a call of Job.findAll, or of the query of GET /jobs: the
\* title text, the minSalary integer and whether hasEquity is true.
TitleFilter ==
  IF fn = "Job.findAll" THEN Get(args[1], K_title) ELSE Param(K_title)

MinSalaryFilter ==
  IF fn = "Job.findAll" THEN Get(args[1], K_minSalary)
  ELSE IF Param(K_minSalary) = Undefined THEN Undefined
  ELSE IntegerOf(Param(K_minSalary).s)

HasEquityFilter ==
  IF fn = "Job.findAll" THEN Get(args[1], K_hasEquity) = Bool(TRUE)
  ELSE IsWord(Param(K_hasEquity), T_true)

\* The stored job satisfies every filter supplied.
SatisfiesFilters(job) ==
  /\ TitleFilter # Undefined =>
       /\ job[C_title] # Null
       /\ Contains(ToLowerCase(job[C_title].s), ToLowerCase(TitleFilter.s))
  /\ MinSalaryFilter # Undefined =>
       /\ job[C_salary] # Null
       /\ job[C_salary].n >= MinSalaryFilter.n
  /\ HasEquityFilter => job[C_equity] # Null /\ job[C_equity] # Num(0)

\* The jobs a list holds.
Listed(list) == {list.items[i] : i \in 1..Len(list.items)}

FilteredJobs ==
  {JobRow(db.jobs, id) : id \in {j \in DOMAIN db.jobs :
                                   SatisfiesFilters(db.jobs[j])}}

\* C20: Job.findAll(filters) returns exactly the stored jobs that satisfy
\* every supplied filter (title contained without regard to case, salary at
\* least minSalary, equity not zero when hasEquity is true, no job excluded
\* by a filter that is absent or by hasEquity false), each once, and GET /jobs
\* with the corresponding query answers with the same list.
C20_FindAllFilters ==
  /\ fn = "Job.findAll" =>
       /\ ret.ok
       /\ Listed(ret.value) = FilteredJobs
       /\ Len(ret.value.items) = Cardinality(FilteredJobs)
  /\ (fn = "GET /jobs" /\ ret.ok) =>
       /\ Listed(Get(ret.value.o, K_jobs)) = FilteredJobs
       /\ Len(Get(ret.value.o, K_jobs).items) = Cardinality(FilteredJobs)

\* ------------------------------------------------------------ model claims

\* The call made by this step is Job.update on a stored job.
UpdatesStoredJob == fn' = "Job.update" /\ args'[1].n \in DOMAIN db.jobs

\* The keys of data that name a field a caller may change.
SuppliedFields(data) ==
  {k \in {K_title, K_salary, K_equity} : HasOwn(data, k)}

\* C21: no step changes the id or the companyHandle of a stored job, whatever
\* data Job.update is given; and a Job.update of a stored job whose data
\* carries id or companyHandle next to other fields succeeds and stores
\* those fields.
C21_IdAndCompanyFixed ==
  [][/\ DOMAIN db'.jobs = DOMAIN db.jobs
     /\ \A id \in DOMAIN db.jobs :
          db'.jobs[id][C_company_handle] = db.jobs[id][C_company_handle]
     /\ (/\ UpdatesStoredJob
         /\ HasOwn(args'[2], K_id) \/ HasOwn(args'[2], K_companyHandle)
         /\ SuppliedFields(args'[2]) # {}) =>
          /\ ret'.ok
          /\ \A k \in SuppliedFields(args'[2]) :
               db'.jobs[args'[1].n][k] = Get(args'[2], k)]_vars

\* The entries of data that name column c: those whose key, translated by
\* the table, is c, the keys that the operation drops left aside.
Naming(data, c, jsToSql, dropped) ==
  {i \in 1..Len(data) :
     data[i][1] \notin dropped /\ ColumnOf(data[i][1], jsToSql) = c}

\* What is stored for a value given: the value, or for a password that is a
\* text also its hash.
StoredFor(c, v) ==
  IF c = C_password /\ v.t = "string" THEN {v, Str(BcryptHash(v.s))} ELSE {v}

\* The row after a partial update with data: a field in data has the value
\* given (NULL for null), a field that is not in data has the value it had.
PartiallyUpdated(old, new, data, jsToSql, dropped) ==
  \A c \in DOMAIN old :
    IF Naming(data, c, jsToSql, dropped) # {}
    THEN \E i \in Naming(data, c, jsToSql, dropped) :
           new[c] \in StoredFor(c, data[i][2])
    ELSE new[c] = old[c]

Query ==
  IF fn' = "Job.update" THEN UpdateQuery(JobBuilt(args'[2]), args'[1])
  ELSE UpdateQuery(UserBuilt(args'[2]), args'[1])

\* The entries of data that become assignments, in key order.
Fields ==
  IF fn' = "Job.update"
  THEN SelectSeq(args'[2], LAMBDA e : e[1] \notin {K_id, K_companyHandle})
  ELSE args'[2]

\* C28: the UPDATE statement a step of Job.update or User.update executes
\* for data with n fields has the placeholders $1..$n in its SET clause, in
\* order, bound to the fields' values in key order, and $(n+1) in its WHERE
\* clause, bound to the id or username, the last of the n+1 parameters.
C28_UpdatePlaceholders ==
  [][(fn' \in {"Job.update", "User.update"} /\ queries' > 0) =>
       /\ Placeholders(Query.setCols) = [i \in 1..Len(Fields) |-> i]
       /\ Placeholders(Query.keyVarIdx) = <<Len(Fields) + 1>>
       /\ Len(Query.params) = Len(Fields) + 1
       /\ Query.params[Len(Fields) + 1] = args'[1]
       /\ \A i \in 1..Len(Fields) :
            Query.params[i] \in StoredFor(Fields[i][1], Fields[i][2])
       /\ (ret'.ok /\ fn' = "Job.update") =>
            \A i \in 1..Len(Fields) :
              db'.jobs[args'[1].n][Fields[i][1]] = Fields[i][2]]_vars

\* Job.update(1, { id: 9, title: '$' }): one assignment to $1, the id bound
\* to $2, and the row updated by them.
C28_Witness ==
  /\ fn = "Job.update"
  /\ ret.ok
  /\ queries = 1
  /\ args = <<Num(1), << <<K_id, Num(9)>>, <<K_title, Str(S_dollar)>> >> >>
  /\ UpdateQuery(JobBuilt(args[2]), args[1]).keyVarIdx = <<"$", "2">>
  /\ UpdateQuery(JobBuilt(args[2]), args[1]).params = <<Str(S_dollar), Num(1)>>
  /\ db.jobs[1][C_title] = Str(S_dollar)

\* ------------------------------------------- middleware claims, continued

MiddlewareNames ==
  {"convertJobId", "convertGetAllJobsQueryParameters",
   "convertGetAllCompaniesQueryParameters", "authenticateJWT",
   "ensureLoggedIn", "ensureAdmin", "ensureAdminOrSelf"}

\* C29: every invocation of a middleware has called next exactly once,
\* with no argument or with an error.
C29_NextOnce ==
  fn \in MiddlewareNames =>
    /\ Len(ret.next) = 1
    /\ ret.next[1] = NoError \/ ~ret.next[1].ok

\* ensureAdmin on a response without a user: reading isAdmin throws, and the
\* catch passes the TypeError to next, once.
C29_Witness ==
  /\ fn = "ensureAdmin"
  /\ LocalsUser(args[2]) = Undefined
  /\ ret.next = <<Throw("TypeError", T_noUser)>>

Normalizers ==
  {"convertGetAllJobsQueryParameters", "convertGetAllCompaniesQueryParameters"}

\* C30: a normalizer of query parameters that has passed an error to next
\* has left req.query as it received it.
C30_QueryKeptOnError ==
  (fn \in Normalizers /\ ret.next # <<NoError>>) =>
    ret.req.query = args[1].query

\* --------------------------------------------------- model claims, continued

\* What Job.get(id) gives on a store.
Got(store, id) == Job_get(store, Num(id)).ret

\* The ids of the jobs that this step has created, updated or removed.
Written ==
  IF ~ret'.ok THEN {}
  ELSE CASE fn' = "Job.create" -> {Get(ret'.value, K_id).n}
         [] fn' \in {"Job.update", "Job.remove"} -> {args'[1].n}
         [] OTHER -> {}

NoJob(result) == ~result.ok /\ result.error = "NotFoundError"

\* C23: Job.get(id) gives the job as its create or its latest successful
\* update returned it, and NotFoundError for an id never created or since
\* removed: a create gives a new id and what it returns is what get then
\* gives, so for an update; after a remove get fails; no step changes what
\* get gives for an id it has not written, an id never given or once
\* removed is not stored, and a call of Job.get returns just that.
C23_GetAfterWrites ==
  [][/\ (fn' = "Job.create" /\ ret'.ok) =>
          /\ Written = {db.jobs_id_seq + 1}
          /\ Got(db', db.jobs_id_seq + 1) = ret'
     /\ (fn' = "Job.update" /\ ret'.ok) => Got(db', args'[1].n) = ret'
     /\ (fn' = "Job.remove" /\ ret'.ok) => NoJob(Got(db', args'[1].n))
     /\ \A id \in 1..(MaxJobId + 1) :
          /\ id \notin Written => Got(db', id) = Got(db, id)
          /\ id > db'.jobs_id_seq => NoJob(Got(db', id))
          /\ NoJob(Got(db, id)) /\ id <= db.jobs_id_seq => NoJob(Got(db', id))
     /\ fn' = "Job.get" => ret' = Got(db, args'[1].n) /\ db' = db]_vars

\* Job.get(3) of the job created as '$9' and then renamed by an update,
\* after job 1 has been removed.
C23_Witness ==
  /\ fn = "Job.get"
  /\ args = <<Num(3)>>
  /\ ret.ok
  /\ Get(ret.value, K_title) = Str(S_net)
  /\ Get(ret.value, K_salary) = Num(2)
  /\ NoJob(Got(db, 1))

\* The step calls an operation on a row that is not stored: a job id for
\* Job.update and Job.remove, a username for User.update and User.remove,
\* either of them for User.applyJob.
NamesMissingRow ==
  \/ /\ fn' \in {"Job.update", "Job.remove"}
     /\ args'[1].n \notin DOMAIN db.jobs
  \/ /\ fn' \in {"User.update", "User.remove"}
     /\ args'[1].s \notin DOMAIN db.users
  \/ /\ fn' = "User.applyJob"
     /\ \/ args'[1].s \notin DOMAIN db.users
        \/ args'[2].n \notin DOMAIN db.jobs

\* The step calls an update with data that has no field to assign.
UpdatesNothing == fn' \in {"Job.update", "User.update"} /\ Fields = <<>>

\* C24, as stated: an operation called on a row that is not stored fails
\* with NotFoundError and leaves every table unchanged.
C24_AlwaysNotFound ==
  [][NamesMissingRow =>
       /\ ~ret'.ok
       /\ ret'.error = "NotFoundError"
       /\ db' = db]_vars

\* C24, amended: an operation called on a row that is not stored fails and
\* leaves every table unchanged; the error is NotFoundError, except that an
\* update whose data has no field to assign fails with BadRequestError
\* before any statement is executed.
C24_MissingRowRejected ==
  [][NamesMissingRow =>
       /\ ~ret'.ok
       /\ db' = db
       /\ IF UpdatesNothing
          THEN ret'.error = "BadRequestError" /\ queries' = 0
          ELSE ret'.error = "NotFoundError"]_vars

\* Job.update(3, { title: '$9' }) fails with NotFoundError on a store that
\* holds an application and has lost nothing by the failed call.
C24_Witness ==
  /\ fn = "Job.update"
  /\ args = <<Num(3), << <<K_title, Str(S_dollar)>> >> >>
  /\ ~ret.ok
  /\ ret.error = "NotFoundError"
  /\ db.applications = {<<U1, 1>>}
  /\ DOMAIN db.jobs = {1, 2}

\* ---------------------------------------------------- model claims, matching

\* The user and the job have at least one technology in common.
Shares(username, id) ==
  \E t \in DOMAIN db.technologies :
    /\ <<username, t>> \in db.users_technologies
    /\ <<id, t>> \in db.jobs_technologies

\* The names of the technologies the user and the job both have.
Common(username, id) ==
  {db.technologies[t] : t \in {t \in DOMAIN db.technologies :
                                 /\ <<username, t>> \in db.users_technologies
                                 /\ <<id, t>> \in db.jobs_technologies}}

\* The list holds each job that shares a technology with the user once, as
\* it is stored, with the technologies common to the two, each once.
ListsMatches(username, list) ==
  /\ {Get(list[i], K_id).n : i \in 1..Len(list)} =
       {id \in DOMAIN db.jobs : Shares(username, id)}
  /\ \A i, j \in 1..Len(list) :
       i # j => Get(list[i], K_id) # Get(list[j], K_id)
  /\ \A i \in 1..Len(list) :
       LET id == Get(list[i], K_id).n
           names == Get(list[i], K_technologies).items
       IN /\ Delete(list[i], K_technologies) = JobRow(db.jobs, id)
          /\ {names[n] : n \in 1..Len(names)} = Common(username, id)
          /\ Len(names) = Cardinality(Common(username, id))

\* C25: User.matchJobs(username) of a stored user returns exactly the jobs
\* that share a technology with the user, each once, each with the
\* technologies common to the job and the user, so the empty list when no job
\* shares one; of a user not stored it fails with NotFoundError; it changes
\* nothing.
C25_MatchJobs ==
  [][fn' = "User.matchJobs" =>
       /\ db' = db
       /\ IF args'[1].s \in DOMAIN db.users
          THEN /\ ret'.ok
               /\ ret'.value.t = "array"
               /\ ListsMatches(args'[1].s, ret'.value.items)
               /\ (\A id \in DOMAIN db.jobs : ~Shares(args'[1].s, id)) =>
                    ret'.value.items = <<>>
          ELSE /\ ~ret'.ok
               /\ ret'.error = "NotFoundError"]_vars

\* matchJobs('u1') has returned jobs 1 and 2, the first with the two
\* technologies u1 has of its three.
C25_Witness ==
  /\ fn = "User.matchJobs"
  /\ args = <<Str(U1)>>
  /\ ret.ok
  /\ Len(ret.value.items) = 2
  /\ \E i \in 1..2 :
       /\ Get(ret.value.items[i], K_id) = Num(1)
       /\ Len(Get(ret.value.items[i], K_technologies).items) = 2

\* ---------------------------------------------------- model claims, passwords

\* The user a register or update step writes the password of, and the
\* password the step supplies.
PasswordSupplied ==
  CASE fn' = "User.register" /\ ret'.ok ->
         {<<Get(args'[1], K_username).s, Get(args'[1], K_password)>>}
    [] fn' = "User.update" /\ ret'.ok /\ HasOwn(args'[2], K_password) ->
         {<<args'[1].s, Get(args'[2], K_password)>>}
    [] OTHER -> {}

\* C26: the password stored for a user is a bcrypt hash of the password last
\* supplied for that user by User.register or User.update and never the
\* supplied text itself: a step that supplies one stores its hash, no other
\* step changes a stored password, and the users returned by register,
\* update and authenticate have no password field.
C26_PasswordsHashed ==
  [][/\ \A w \in PasswordSupplied :
          /\ db'.users[w[1]][C_password] = Str(BcryptHash(w[2].s))
          /\ db'.users[w[1]][C_password] # w[2]
     /\ \A u \in DOMAIN db'.users \cap DOMAIN db.users :
          (\A w \in PasswordSupplied : w[1] # u) =>
            db'.users[u][C_password] = db.users[u][C_password]
     /\ ( /\ fn' \in {"User.register", "User.update", "User.authenticate"}
          /\ ret'.ok ) => ~HasOwn(ret'.value, K_password)]_vars

\* ---------------------------------------------------- model claims, duplicates

\* The four fields Job.create is given, as the row holds them.
JobFields(row) ==
  <<row[C_title], row[C_salary], row[C_equity], row[C_company_handle]>>

\* C27: after any sequence or interleaving of Job.create calls the store
\* never holds two jobs with identical title, salary, equity and
\* companyHandle.
C27_NoTwoSameJobs ==
  \A id, other \in DOMAIN db.jobs :
    id # other => JobFields(db.jobs[id]) # JobFields(db.jobs[other])

====
